---- MODULE Spec2Model ----
(***************************************************************************)
(* A model of the decision subsystem of the AI Risk Gatekeeper:            *)
(*   - DecisionCache        (agents/decision_cache.py)                     *)
(*   - AIRequestQueue       (agents/ai_request_queue.py)                   *)
(*   - HybridDecisionEngine (agents/hybrid_decision_engine.py)             *)
(*                                                                         *)
(* Conventions.  Risk scores and confidences are floats in [0,1] in the    *)
(* source; here they are integers in thousandths (score) and hundredths    *)
(* (confidence).  time.time() is an integer clock `now` in seconds.        *)
(* latency_ms is a wall-clock measurement and is not modelled.  Python's   *)
(* None is the empty sequence <<>> and a returned object r is <<r>>.       *)
(* Coroutines run on one asyncio event loop: the code between two awaits   *)
(* that suspend is one atomic action.                                      *)
(***************************************************************************)
EXTENDS Integers, Sequences, FiniteSets, TLC

(***************************************************************************)
(* Bounds of the model.                                                    *)
(***************************************************************************)
MaxCacheSize == 2      \* largest max_size a DecisionCache is built with
CacheTtl == 1          \* ttl_seconds of the caches of the model
MaxTime == 2           \* the clock stops here
MaxCacheOps == 4       \* direct DecisionCache calls in one behaviour
MaxConcurrent == 2     \* max_concurrent of the AIRequestQueue of the model
MaxQueue == 1          \* largest max_queue an AIRequestQueue is built with
MaxSubmits == 6        \* submit() calls in one behaviour
MaxConcurrentAI == 1   \* max_concurrent_ai of the engine of the model
MaxQueueSize == 2      \* largest max_queue_size an engine is built with
MaxDecides == 2        \* decide() calls in one behaviour
MaxTrackerCalls == 3   \* WindowedCounter calls in one behaviour
window_seconds == 2    \* RateLimiter.window_seconds of the limiter of the model
max_requests == 2      \* RateLimiter.max_requests of the limiter of the model
MaxLimiterTime == 4    \* the limiter's clock runs from 0 to MaxLimiterTime
MaxLimiterCalls == 5   \* is_allowed calls in one behaviour
MaxThreadCalls == 3    \* is_allowed calls in one behaviour with two threads
MaxActions == 4        \* execute_action calls in one behaviour
MaxMessages == 2       \* messages on the input topic of a stage worker
MaxPolls == 4          \* polls of a stage worker in one behaviour

(***************************************************************************)
(* Program constants.                                                      *)
(***************************************************************************)
initial_backoff_ms == 1000
max_backoff_ms == 30000
low_threshold == 300
high_threshold == 800

VARIABLES
    cache,        \* DecisionCache._cache: OrderedDict as a sequence, LRU first
    hits,         \* DecisionCache._hits
    misses,       \* DecisionCache._misses
    max_size,     \* DecisionCache._max_size
    now,          \* time.time()
    c_last,       \* the last direct DecisionCache call and what it returned
    c_putAt,      \* history: key -> the time of the last successful put (-1: never)
    c_ops         \* number of direct DecisionCache calls made so far

cacheVars == <<cache, hits, misses, max_size, now, c_last, c_putAt, c_ops>>

VARIABLES
    q_semaphore,     \* AIRequestQueue._semaphore
    q_queue,         \* AIRequestQueue._queue
    q_max_queue,     \* AIRequestQueue._max_queue
    q_backoff,       \* AIRequestQueue._current_backoff_ms
    q_submitted,     \* AIRequestQueue._submitted
    q_completed,     \* AIRequestQueue._completed
    q_overflowed,    \* AIRequestQueue._overflowed
    q_rate_limited,  \* AIRequestQueue._rate_limited
    q_pc,            \* where each submit() call stands
    q_out,           \* what each caller's last submit() returned or raised
    q_cancelled,     \* whether the caller's task was cancelled while it was suspended
    q_err,           \* history: the error text ai_func raised in the caller's last submit()
    q_rate_errs,     \* history: rate-limit-shaped errors raised: in all (total), and
                     \*   since the last success or reset_backoff (streak)
    q_calls          \* history: submit() calls made so far

queueVars == <<q_semaphore, q_queue, q_max_queue, q_backoff, q_submitted, q_completed,
               q_overflowed, q_rate_limited, q_pc, q_out, q_cancelled, q_err, q_rate_errs,
               q_calls>>

VARIABLES
    e_mode,          \* HybridDecisionEngine._mode
    e_semaphore,     \* HybridDecisionEngine._ai_semaphore
    e_queue_size,    \* HybridDecisionEngine._ai_queue_size
    e_max_queue,     \* HybridDecisionEngine._max_queue_size
    e_api_key,       \* whether the environment lets _init_ai_client build a client
    e_client,        \* HybridDecisionEngine._ai_client: "none" or "ready"
    e_stats,         \* HybridDecisionEngine._stats
    e_pc,            \* where each decide() call stands
    e_sig,           \* the signal each decide() call was given
    e_last,          \* history: the last decide() that returned, and by which route
    e_calls          \* history: decide() calls made so far (the next correlation id)

engineVars == <<e_mode, e_semaphore, e_queue_size, e_max_queue, e_api_key, e_client,
                e_stats, e_pc, e_sig, e_last, e_calls>>

VARIABLE
    exercised        \* which component the callers of this run exercise

VARIABLES
    u_args,          \* the arguments of a function called on its own
    u_result         \* what it returned: <<>> before the call, <<value>> after

unitVars == <<u_args, u_result>>

VARIABLES
    f_buckets,       \* WindowedCounter._buckets: actor -> (bucket key -> count)
    f_lock,          \* WindowedCounter._lock: "" when free, else the holding thread
    f_pc,            \* where each stage worker's call stands
    f_args,          \* the call each stage worker is in (or made last)
    f_ret,           \* what each worker's last call returned: <<>> or <<value>>
    f_events,        \* history: the events counted into a bucket so far
    f_calls          \* history: WindowedCounter calls made so far

trackerVars == <<f_buckets, f_lock, f_pc, f_args, f_ret, f_events, f_calls>>

VARIABLES
    r_requests,      \* RateLimiter._requests: actor -> list of timestamps
    r_now,           \* what time.time() gives the limiter
    r_hist,          \* history: the consultations made, [actor, at, allowed]
    r_pc,            \* where each thread stands inside is_allowed
    r_local          \* the locals of each thread's is_allowed call

limiterVars == <<r_requests, r_now, r_hist, r_pc, r_local>>

VARIABLES
    a_stats,         \* ActionAgent: _actions_executed, _blocks, _throttles, _allows, _escalations
    a_calls,         \* history: execute_action calls made so far
    a_last           \* history: the decision of the last call and whether the call raised

agentVars == <<a_stats, a_calls, a_last>>

VARIABLES
    w_pc,            \* SignalProcessor.run: "idle", "loop", "poll", "process", "done"
    w_running,       \* SignalProcessor._running
    w_use_real,      \* SignalProcessor._use_real_frequency
    w_max_events,    \* the max_events argument of run(): <<>> for None
    w_events_count,  \* the events_count local of run()
    w_input,         \* the messages of the input topic not yet polled
    w_output,        \* the messages produced to the output topic: [key, value]
    w_stats,         \* _events_processed, _events_failed
    w_event,         \* the event inside process_and_publish
    w_consumed,      \* history: the messages polled so far
    w_stopped,       \* history: stop() has been called
    w_polls,         \* history: polls made
    w_polls_after_stop   \* history: polls begun after stop() was called

loopVars == <<w_pc, w_running, w_use_real, w_max_events, w_events_count, w_input, w_output,
              w_stats, w_event, w_consumed, w_stopped, w_polls, w_polls_after_stop>>

VARIABLES
    simulation_running,  \* web AppState.simulation_running
    sim_tasks            \* the tasks the websocket handler created, oldest first

simVars == <<simulation_running, sim_tasks>>

\* The components that the tracker and the limiter never touch by themselves.
restVars == <<agentVars, loopVars, simVars>>

\* The components that the cache, the queue and the engine never touch.
otherVars == <<trackerVars, limiterVars, restVars>>

vars == <<cacheVars, queueVars, engineVars, exercised, unitVars, otherVars>>

(***************************************************************************)
(* Sequence helpers.                                                       *)
(***************************************************************************)
RECURSIVE SeqWithout(_, _)
SeqWithout(s, x) ==
    IF s = <<>> THEN <<>>
    ELSE IF Head(s) = x THEN SeqWithout(Tail(s), x)
    ELSE <<Head(s)>> \o SeqWithout(Tail(s), x)

Min(a, b) == IF a <= b THEN a ELSE b

(***************************************************************************)
(* Signals.  A RiskSignal carries the actor, a fresh correlation id, the   *)
(* score, the factor tags and the originating event.                       *)
(***************************************************************************)
\* The risk patterns the model draws signals from: two clear-cut ones and
\* three in the ambiguous band (two of them on the thresholds).
Patterns ==
    { [risk_score |-> 100, risk_factors |-> <<>>,
       action |-> "file_read", role |-> "developer",
       geo_change |-> FALSE, resource_sensitivity |-> "low"],
      [risk_score |-> 300, risk_factors |-> <<"sensitive_resource_high">>,
       action |-> "config_change", role |-> "analyst",
       geo_change |-> FALSE, resource_sensitivity |-> "high"],
      [risk_score |-> 550, risk_factors |-> <<"sensitive_resource_high", "geographic_anomaly">>,
       action |-> "config_change", role |-> "analyst",
       geo_change |-> TRUE, resource_sensitivity |-> "high"],
      [risk_score |-> 800, risk_factors |-> <<"geographic_anomaly", "sensitive_resource_critical">>,
       action |-> "bulk_export", role |-> "developer",
       geo_change |-> TRUE, resource_sensitivity |-> "critical"],
      [risk_score |-> 900, risk_factors |-> <<"geographic_anomaly", "sensitive_resource_critical">>,
       action |-> "bulk_export", role |-> "developer",
       geo_change |-> TRUE, resource_sensitivity |-> "critical"] }

MakeSignal(actor, corr, p) ==
    [actor_id |-> actor, correlation_id |-> corr,
     risk_score |-> p.risk_score, risk_factors |-> p.risk_factors,
     original_event |-> [action |-> p.action, role |-> p.role,
                         geo_change |-> p.geo_change,
                         resource_sensitivity |-> p.resource_sensitivity]]

(***************************************************************************)
(* DecisionCache.compute_pattern_hash.  The MD5 of the JSON text of the    *)
(* pattern is modelled by the pattern tuple itself (MD5 collisions are not *)
(* modelled); the tuple is built as the code builds the dict.              *)
(***************************************************************************)
\* sorted() on the factor tags: the rank of each tag in string order.
FactorRank(tag) ==
    CASE tag = "elevated_privileges" -> 1
      [] tag = "geographic_anomaly" -> 2
      [] tag = "sensitive_resource_critical" -> 3
      [] tag = "sensitive_resource_high" -> 4
      [] tag = "suspicious_role_action_combination" -> 5
      [] OTHER -> 6

RECURSIVE InsertSorted(_, _)
InsertSorted(s, x) ==
    IF s = <<>> THEN <<x>>
    ELSE IF FactorRank(x) < FactorRank(Head(s)) THEN <<x>> \o s
    ELSE <<Head(s)>> \o InsertSorted(Tail(s), x)

RECURSIVE Sorted(_)
Sorted(s) == IF s = <<>> THEN <<>> ELSE InsertSorted(Sorted(Tail(s)), Head(s))

\* round(score, 1) in tenths, for a score in thousandths.  Python rounds the
\* binary float: the ties n = 50, 150, ... go the way CPython 3.11 sends them.
RiskBucket(score) ==
    IF score % 100 = 50
    THEN CASE score = 50 -> 1 [] score = 150 -> 1 [] score = 250 -> 2
           [] score = 350 -> 3 [] score = 450 -> 5 [] score = 550 -> 6
           [] score = 650 -> 7 [] score = 750 -> 8 [] score = 850 -> 8
           [] OTHER -> 9
    ELSE (score + 50) \div 100

\* A fingerprint that also takes the actor in.
compute_pattern_hash_PerActor(signal) ==
    <<signal.original_event.action,
      signal.original_event.role,
      RiskBucket(signal.risk_score),
      Sorted(signal.risk_factors),
      signal.original_event.geo_change,
      signal.original_event.resource_sensitivity,
      signal.actor_id>>

compute_pattern_hash(signal) ==
    <<signal.original_event.action,
      signal.original_event.role,
      RiskBucket(signal.risk_score),
      Sorted(signal.risk_factors),
      signal.original_event.geo_change,
      signal.original_event.resource_sensitivity>>

(***************************************************************************)
(* DecisionResult.                                                         *)
(***************************************************************************)
DecisionResult(decision, confidence, reason, source, correlation_id, actor_id) ==
    [decision |-> decision, confidence |-> confidence, reason |-> reason,
     source |-> source, provisional |-> FALSE,
     correlation_id |-> correlation_id, actor_id |-> actor_id]

(***************************************************************************)
(* DecisionCache.  An entry is [key, result, timestamp]; the OrderedDict   *)
(* is the sequence of its entries, oldest (least recently used) first.     *)
(***************************************************************************)
CacheKeys(c) == {c[i].key : i \in 1..Len(c)}

CacheEntry(c, k) == c[CHOOSE i \in 1..Len(c) : c[i].key = k]

RECURSIVE CacheDelete(_, _)
CacheDelete(c, k) ==
    IF c = <<>> THEN <<>>
    ELSE IF Head(c).key = k THEN Tail(c)
    ELSE <<Head(c)>> \o CacheDelete(Tail(c), k)

\* OrderedDict.move_to_end(key)
MoveToEnd(c, k) == CacheDelete(c, k) \o <<CacheEntry(c, k)>>

\* The TTL test of get and cleanup_expired.
Expired(entry, t, ttl) == t - entry.timestamp > ttl

\* The copy get() returns on a hit (lines 105-115).
CachedCopy(result) ==
    DecisionResult(result.decision, result.confidence, result.reason,
                   "cache", result.correlation_id, result.actor_id)

\* A get that restamps the entry it hits (a sliding TTL).
TouchOnHit_Restamp(c, k, t) ==
    CacheDelete(c, k) \o <<[CacheEntry(c, k) EXCEPT !.timestamp = t]>>

\* A get that forgets move_to_end.
TouchOnHit_NoMove(c, k, t) == c

\* What get() does to the entry it hits: it only moves it (line 101).
TouchOnHit(c, k, t) == MoveToEnd(c, k)

\* DecisionCache.get: the new cache, whether it was a hit, whether an expired
\* entry was found (and deleted), and the returned value.
CacheGet(c, k, t, ttl) ==
    IF k \notin CacheKeys(c)
    THEN [cache |-> c, hit |-> FALSE, expired |-> FALSE, ret |-> <<>>]
    ELSE IF Expired(CacheEntry(c, k), t, ttl)
    THEN [cache |-> CacheDelete(c, k), hit |-> FALSE, expired |-> TRUE, ret |-> <<>>]
    ELSE [cache |-> TouchOnHit(c, k, t), hit |-> TRUE, expired |-> FALSE,
          ret |-> <<CachedCopy(CacheEntry(c, k).result)>>]

\* The eviction loop of put: `while len(cache) >= max_size: popitem(last=False)`.
\* popitem on an empty OrderedDict raises KeyError.  `ev` collects the evicted keys.
RECURSIVE EvictLoop(_, _, _)
EvictLoop(c, max, ev) ==
    IF Len(c) >= max
    THEN IF c = <<>>
         THEN [cache |-> c, raised |-> TRUE, evicted |-> ev]
         ELSE EvictLoop(Tail(c), max, ev \o <<Head(c).key>>)
    ELSE [cache |-> c, raised |-> FALSE, evicted |-> ev]

\* A put that drops what it is given.
CachePut_Dropped(c, k, result, t, max) ==
    [cache |-> c, raised |-> FALSE, evicted |-> <<>>]

\* DecisionCache.put: the new cache, whether the call raised, the evicted keys.
CachePut(c, k, result, t, max) ==
    LET d == IF k \in CacheKeys(c) THEN CacheDelete(c, k) ELSE c
        e == EvictLoop(d, max, <<>>)
    IN  IF e.raised
        THEN [cache |-> e.cache, raised |-> TRUE, evicted |-> e.evicted]
        ELSE [cache |-> e.cache \o <<[key |-> k, result |-> result, timestamp |-> t]>>,
              raised |-> FALSE, evicted |-> e.evicted]

\* DecisionCache.cleanup_expired: the entries that stay.
RECURSIVE CleanupExpired(_, _, _)
CleanupExpired(c, t, ttl) ==
    IF c = <<>> THEN <<>>
    ELSE IF Expired(Head(c), t, ttl) THEN CleanupExpired(Tail(c), t, ttl)
    ELSE <<Head(c)>> \o CleanupExpired(Tail(c), t, ttl)

(***************************************************************************)
(* Direct use of a DecisionCache (SpecCache).                              *)
(***************************************************************************)
\* Results a caller may put.
PutResults ==
    { DecisionResult(d, 80, "ai says so", "ai", 0, "u1") : d \in {"throttle", "escalate"} }

\* Keys a caller uses: the fingerprints of the ambiguous-band patterns.
PutKeys == {compute_pattern_hash(MakeSignal("u1", 0, p)) :
              p \in {q \in Patterns : q.risk_score \in {300, 550, 800}}}

NoCall == [op |-> "none", key |-> <<>>, ret |-> <<>>, raised |-> FALSE, hit |-> FALSE,
           expired |-> FALSE, evicted |-> <<>>]

\* DecisionCache.__init__ with the given max_size.
InitCacheWith(sizes) ==
    /\ cache = <<>>
    /\ hits = 0
    /\ misses = 0
    /\ max_size \in sizes
    /\ now = 0
    /\ c_last = NoCall
    /\ c_putAt = [k \in PutKeys |-> -1]
    /\ c_ops = 0

Tick ==
    /\ now < MaxTime
    /\ now' = now + 1
    /\ UNCHANGED <<cache, hits, misses, max_size, c_last, c_putAt, c_ops>>

CGet(k) ==
    /\ c_ops < MaxCacheOps
    /\ LET g == CacheGet(cache, k, now, CacheTtl)
       IN  /\ cache' = g.cache
           /\ hits' = IF g.hit THEN hits + 1 ELSE hits
           /\ misses' = IF g.hit THEN misses ELSE misses + 1
           /\ c_last' = [op |-> "get", key |-> k, ret |-> g.ret, raised |-> FALSE,
                         hit |-> g.hit, expired |-> g.expired, evicted |-> <<>>]
    /\ c_ops' = c_ops + 1
    /\ UNCHANGED <<max_size, now, c_putAt>>

CPut(k, r) ==
    /\ c_ops < MaxCacheOps
    /\ LET p == CachePut(cache, k, r, now, max_size)
       IN  /\ cache' = p.cache
           /\ c_last' = [op |-> "put", key |-> k, ret |-> <<r>>, raised |-> p.raised,
                         hit |-> FALSE, expired |-> FALSE, evicted |-> p.evicted]
           /\ c_putAt' = IF p.raised THEN c_putAt ELSE [c_putAt EXCEPT ![k] = now]
    /\ c_ops' = c_ops + 1
    /\ UNCHANGED <<hits, misses, max_size, now>>

CCleanup ==
    /\ c_ops < MaxCacheOps
    /\ cache' = CleanupExpired(cache, now, CacheTtl)
    /\ c_last' = [op |-> "cleanup_expired", key |-> <<>>, ret |-> <<>>, raised |-> FALSE,
                  hit |-> FALSE, expired |-> FALSE, evicted |-> <<>>]
    /\ c_ops' = c_ops + 1
    /\ UNCHANGED <<hits, misses, max_size, now, c_putAt>>

CClear ==
    /\ c_ops < MaxCacheOps
    /\ cache' = <<>>
    /\ c_last' = [op |-> "clear", key |-> <<>>, ret |-> <<>>, raised |-> FALSE,
                  hit |-> FALSE, expired |-> FALSE, evicted |-> <<>>]
    /\ c_ops' = c_ops + 1
    /\ UNCHANGED <<hits, misses, max_size, now, c_putAt>>

(***************************************************************************)
(* asyncio.Semaphore as CPython 3.11 implements it (setup.py requires      *)
(* python >= 3.11): a counter and a FIFO of waiters.  release() hands the  *)
(* permit to the first waiter that has not been woken yet; a woken waiter  *)
(* stays in the FIFO until its task runs again.                            *)
(***************************************************************************)
Semaphore(n) == [value |-> n, waiters |-> <<>>, granted |-> {}]

\* A locked() that only looks at the queue.
SemLocked_IgnoresValue(sem) == sem.waiters # <<>>

\* Semaphore.locked(): no permit, or somebody is already queued.
SemLocked(sem) == sem.value = 0 \/ sem.waiters # <<>>

RECURSIVE FirstNotIn(_, _)
FirstNotIn(s, set) ==
    IF s = <<>> THEN <<>>
    ELSE IF Head(s) \notin set THEN <<Head(s)>>
    ELSE FirstNotIn(Tail(s), set)

\* Semaphore._wake_up_next()
SemWakeUpNext(sem) ==
    LET w == FirstNotIn(sem.waiters, sem.granted)
    IN  IF w = <<>> THEN sem
        ELSE [sem EXCEPT !.value = @ - 1, !.granted = @ \cup {w[1]}]

\* Semaphore.release()
SemRelease(sem) == SemWakeUpNext([sem EXCEPT !.value = @ + 1])

\* Semaphore.acquire() up to its first suspension: the permit is taken at
\* once, or the caller is queued.
SemAcquire(sem, t) ==
    IF ~SemLocked(sem)
    THEN [sem |-> [sem EXCEPT !.value = @ - 1], acquired |-> TRUE]
    ELSE [sem |-> [sem EXCEPT !.waiters = Append(@, t)], acquired |-> FALSE]

\* Semaphore.acquire() after the waiter was woken.
SemResume(sem, t) ==
    LET left == [sem EXCEPT !.waiters = SeqWithout(@, t), !.granted = @ \ {t}]
    IN  IF left.value > 0 THEN SemWakeUpNext(left) ELSE left

\* Semaphore.acquire() when the waiting task is cancelled: a permit that was
\* already handed over is given back.
SemCancel(sem, t) ==
    LET left == [sem EXCEPT !.waiters = SeqWithout(@, t), !.granted = @ \ {t}]
    IN  IF t \in sem.granted
        THEN SemWakeUpNext([left EXCEPT !.value = @ + 1])
        ELSE left

(***************************************************************************)
(* Error texts an AI backend raises, as sequences of characters, and       *)
(* submit's test for a rate-limit-shaped error (lines 125-126).            *)
(***************************************************************************)
ErrorTexts ==
    { <<"R", "a", "t", "e", " ", "l", "i", "m", "i", "t">>,
      <<"H", "T", "T", "P", " ", "4", "2", "9">>,
      <<"Q", "U", "O", "T", "A">>,
      <<"t", "i", "m", "e", "o", "u", "t">>,
      <<"H", "T", "T", "P", " ", "5", "0", "0">> }

\* The texts among them that contain 'rate', '429' or 'quota' in any case.
RateLimitShaped ==
    { <<"R", "a", "t", "e", " ", "l", "i", "m", "i", "t">>,
      <<"H", "T", "T", "P", " ", "4", "2", "9">>,
      <<"Q", "U", "O", "T", "A">> }

\* str.lower() on one character.
LowerChar(ch) ==
    CASE ch = "R" -> "r" [] ch = "A" -> "a" [] ch = "T" -> "t" [] ch = "E" -> "e"
      [] ch = "Q" -> "q" [] ch = "U" -> "u" [] ch = "O" -> "o" [] ch = "H" -> "h"
      [] ch = "P" -> "p" [] OTHER -> ch

Lower(text) == [i \in 1..Len(text) |-> LowerChar(text[i])]

\* `sub in text`
Contains(text, sub) ==
    \E i \in 1..(Len(text) - Len(sub) + 1) : SubSeq(text, i, i + Len(sub) - 1) = sub

\* The test without the .lower().
IsRateLimitError_CaseSensitive(err) ==
    \/ Contains(err, <<"r", "a", "t", "e">>)
    \/ Contains(err, <<"4", "2", "9">>)
    \/ Contains(err, <<"q", "u", "o", "t", "a">>)

\* A test that takes every error for a rate limit.
IsRateLimitError_Any(err) == TRUE

IsRateLimitError(err) ==
    LET error_str == Lower(err)
    IN  \/ Contains(error_str, <<"r", "a", "t", "e">>)
        \/ Contains(error_str, <<"4", "2", "9">>)
        \/ Contains(error_str, <<"q", "u", "o", "t", "a">>)

(***************************************************************************)
(* AIRequestQueue.                                                         *)
(***************************************************************************)
Submitters == {"s1", "s2", "s3"}

\* AIRequestQueue.is_overloaded
is_overloaded(queue, max_queue) == Len(queue) >= max_queue

\* A backoff that doubles without the cap.
apply_backoff_NoCap(current) ==
    IF current = 0 THEN initial_backoff_ms ELSE current * 2

\* AIRequestQueue._apply_backoff: the new _current_backoff_ms.
apply_backoff(current) ==
    IF current = 0 THEN initial_backoff_ms
    ELSE Min(current * 2, max_backoff_ms)

\* AIRequestQueue.in_flight
in_flight == MaxConcurrent - q_semaphore.value

\* AIRequestQueue.__init__ with the given max_queue.
InitQueueWith(limits) ==
    /\ q_semaphore = Semaphore(MaxConcurrent)
    /\ q_queue = <<>>
    /\ q_max_queue \in limits
    /\ q_backoff = 0
    /\ q_submitted = 0
    /\ q_completed = 0
    /\ q_overflowed = 0
    /\ q_rate_limited = 0
    /\ q_pc = [p \in Submitters |-> "idle"]
    /\ q_out = [p \in Submitters |-> "none"]
    /\ q_cancelled = [p \in Submitters |-> FALSE]
    /\ q_err = [p \in Submitters |-> <<>>]
    /\ q_rate_errs = [streak |-> 0, total |-> 0]
    /\ q_calls = 0

\* A caller may call submit() when it is not inside one.
CanSubmit(p) == q_pc[p] \in {"idle", "done"} /\ q_calls < MaxSubmits

\* `async with self._semaphore` entered by caller p: it goes on to call
\* ai_func, or waits in the semaphore's FIFO.
EnterSemaphore(p) ==
    LET a == SemAcquire(q_semaphore, p)
    IN  /\ q_semaphore' = a.sem
        /\ q_pc' = [q_pc EXCEPT ![p] = IF a.acquired THEN "ai" ELSE "wait"]

\* submit(): the queue is overloaded, the fallback is returned (lines 104-110).
SubmitOverflow(p) ==
    /\ CanSubmit(p)
    /\ is_overloaded(q_queue, q_max_queue)
    /\ q_submitted' = q_submitted + 1
    /\ q_calls' = q_calls + 1
    /\ q_overflowed' = q_overflowed + 1
    /\ q_out' = [q_out EXCEPT ![p] = "fallback"]
    /\ q_pc' = [q_pc EXCEPT ![p] = "done"]
    /\ q_err' = [q_err EXCEPT ![p] = <<>>]
    /\ q_cancelled' = [q_cancelled EXCEPT ![p] = FALSE]
    /\ UNCHANGED <<q_semaphore, q_queue, q_max_queue, q_backoff, q_completed,
                   q_rate_limited, q_rate_errs>>

\* submit(): a backoff is set, the caller sleeps (lines 104-114).
SubmitSleep(p) ==
    /\ CanSubmit(p)
    /\ ~is_overloaded(q_queue, q_max_queue)
    /\ q_backoff > 0
    /\ q_submitted' = q_submitted + 1
    /\ q_calls' = q_calls + 1
    /\ q_out' = [q_out EXCEPT ![p] = "none"]
    /\ q_pc' = [q_pc EXCEPT ![p] = "sleep"]
    /\ q_err' = [q_err EXCEPT ![p] = <<>>]
    /\ q_cancelled' = [q_cancelled EXCEPT ![p] = FALSE]
    /\ UNCHANGED <<q_semaphore, q_queue, q_max_queue, q_backoff, q_completed,
                   q_overflowed, q_rate_limited, q_rate_errs>>

\* submit(): no backoff, the caller goes straight to the semaphore (lines 104-119).
SubmitEnter(p) ==
    /\ CanSubmit(p)
    /\ ~is_overloaded(q_queue, q_max_queue)
    /\ q_backoff = 0
    /\ q_submitted' = q_submitted + 1
    /\ q_calls' = q_calls + 1
    /\ q_out' = [q_out EXCEPT ![p] = "none"]
    /\ q_err' = [q_err EXCEPT ![p] = <<>>]
    /\ q_cancelled' = [q_cancelled EXCEPT ![p] = FALSE]
    /\ EnterSemaphore(p)
    /\ UNCHANGED <<q_queue, q_max_queue, q_backoff, q_completed,
                   q_overflowed, q_rate_limited, q_rate_errs>>

\* asyncio.sleep returns, the caller goes to the semaphore (lines 114-119).
SleepDone(p) ==
    /\ q_pc[p] = "sleep"
    /\ EnterSemaphore(p)
    /\ UNCHANGED q_err
    /\ UNCHANGED <<q_queue, q_max_queue, q_backoff, q_submitted, q_completed, q_overflowed,
                   q_rate_limited, q_out, q_cancelled, q_rate_errs, q_calls>>

\* A woken waiter runs again and calls ai_func (lines 117-119).
SemaphoreGranted(p) ==
    /\ q_pc[p] = "wait"
    /\ p \in q_semaphore.granted
    /\ q_semaphore' = SemResume(q_semaphore, p)
    /\ q_pc' = [q_pc EXCEPT ![p] = "ai"]
    /\ UNCHANGED q_err
    /\ UNCHANGED <<q_queue, q_max_queue, q_backoff, q_submitted, q_completed, q_overflowed,
                   q_rate_limited, q_out, q_cancelled, q_rate_errs, q_calls>>

\* A success that leaves the backoff alone.
BackoffAfterSuccess_Kept(backoff) == backoff

\* `self._current_backoff_ms = 0` (line 122).
BackoffAfterSuccess(backoff) == 0

\* ai_func returns a result (lines 119-123, then the semaphore is released).
AISucceeds(p) ==
    /\ q_pc[p] = "ai"
    /\ q_completed' = q_completed + 1
    /\ q_backoff' = BackoffAfterSuccess(q_backoff)
    /\ q_rate_errs' = [q_rate_errs EXCEPT !.streak = 0]
    /\ q_out' = [q_out EXCEPT ![p] = "ai"]
    /\ q_semaphore' = SemRelease(q_semaphore)
    /\ q_pc' = [q_pc EXCEPT ![p] = "done"]
    /\ UNCHANGED q_err
    /\ UNCHANGED <<q_queue, q_max_queue, q_submitted, q_overflowed, q_rate_limited,
                   q_cancelled, q_calls>>

\* ai_func raises an Exception with text err (lines 124-130, then the release).
AIFails(p, err) ==
    /\ q_pc[p] = "ai"
    /\ IF IsRateLimitError(err)
       THEN /\ q_rate_limited' = q_rate_limited + 1
            /\ q_backoff' = apply_backoff(q_backoff)
       ELSE UNCHANGED <<q_rate_limited, q_backoff>>
    /\ q_out' = [q_out EXCEPT ![p] = "fallback"]
    /\ q_semaphore' = SemRelease(q_semaphore)
    /\ q_pc' = [q_pc EXCEPT ![p] = "done"]
    /\ q_err' = [q_err EXCEPT ![p] = err]
    /\ q_rate_errs' = IF err \in RateLimitShaped
                      THEN [streak |-> q_rate_errs.streak + 1, total |-> q_rate_errs.total + 1]
                      ELSE q_rate_errs
    /\ UNCHANGED <<q_queue, q_max_queue, q_submitted, q_completed, q_overflowed,
                   q_cancelled, q_calls>>

\* The caller's task is cancelled (shutdown) while submit() is suspended in
\* asyncio.sleep (line 114) or in the semaphore's acquire (line 117): the
\* await raises CancelledError, which nothing in submit() catches.
CancelSuspended(p) ==
    /\ q_pc[p] \in {"sleep", "wait"}
    /\ q_semaphore' = IF q_pc[p] = "wait" THEN SemCancel(q_semaphore, p) ELSE q_semaphore
    /\ q_cancelled' = [q_cancelled EXCEPT ![p] = TRUE]
    /\ q_out' = [q_out EXCEPT ![p] = "CancelledError"]
    /\ q_pc' = [q_pc EXCEPT ![p] = "done"]
    /\ UNCHANGED q_err
    /\ UNCHANGED <<q_queue, q_max_queue, q_backoff, q_submitted, q_completed, q_overflowed,
                   q_rate_limited, q_rate_errs, q_calls>>

\* The caller's task is cancelled while ai_func runs: CancelledError is no
\* Exception, so line 124 does not catch it; the semaphore is released.
CancelInCall(p) ==
    /\ q_pc[p] = "ai"
    /\ q_semaphore' = SemRelease(q_semaphore)
    /\ q_out' = [q_out EXCEPT ![p] = "CancelledError"]
    /\ q_pc' = [q_pc EXCEPT ![p] = "done"]
    /\ UNCHANGED q_err
    /\ UNCHANGED <<q_queue, q_max_queue, q_backoff, q_submitted, q_completed, q_overflowed,
                   q_rate_limited, q_cancelled, q_rate_errs, q_calls>>

\* AIRequestQueue.reset_backoff
ResetBackoff ==
    /\ q_backoff > 0
    /\ q_backoff' = 0
    /\ q_rate_errs' = [q_rate_errs EXCEPT !.streak = 0]
    /\ UNCHANGED q_err
    /\ UNCHANGED <<q_semaphore, q_queue, q_max_queue, q_submitted, q_completed, q_overflowed,
                   q_rate_limited, q_pc, q_out, q_cancelled, q_calls>>

NextQueue ==
    \/ \E p \in Submitters : SubmitOverflow(p) /\ UNCHANGED <<cacheVars, engineVars, exercised, unitVars, otherVars>>
    \/ \E p \in Submitters : SubmitSleep(p) /\ UNCHANGED <<cacheVars, engineVars, exercised, unitVars, otherVars>>
    \/ \E p \in Submitters : SubmitEnter(p) /\ UNCHANGED <<cacheVars, engineVars, exercised, unitVars, otherVars>>
    \/ \E p \in Submitters : SleepDone(p) /\ UNCHANGED <<cacheVars, engineVars, exercised, unitVars, otherVars>>
    \/ \E p \in Submitters : SemaphoreGranted(p) /\ UNCHANGED <<cacheVars, engineVars, exercised, unitVars, otherVars>>
    \/ \E p \in Submitters : AISucceeds(p) /\ UNCHANGED <<cacheVars, engineVars, exercised, unitVars, otherVars>>
    \/ \E p \in Submitters, err \in ErrorTexts : AIFails(p, err) /\ UNCHANGED <<cacheVars, engineVars, exercised, unitVars, otherVars>>
    \/ \E p \in Submitters : CancelSuspended(p) /\ UNCHANGED <<cacheVars, engineVars, exercised, unitVars, otherVars>>
    \/ \E p \in Submitters : CancelInCall(p) /\ UNCHANGED <<cacheVars, engineVars, exercised, unitVars, otherVars>>
    \/ ResetBackoff /\ UNCHANGED <<cacheVars, engineVars, exercised, unitVars, otherVars>>

(***************************************************************************)
(* HybridDecisionEngine.                                                   *)
(***************************************************************************)
Tasks == {"t1", "t2"}

Modes == {"fast", "hybrid", "full_ai"}

Max(a, b) == IF a >= b THEN a ELSE b

\* f"{score:.0%}": the score as a whole percentage.  Python rounds the float
\* product half to even, except at 0.545 and 0.575 where the product is inexact.
PercentText(score) ==
    LET q == score \div 10
        r == score % 10
        n == IF r < 5 THEN q
             ELSE IF r > 5 THEN q + 1
             ELSE IF score = 545 THEN 55
             ELSE IF score = 575 THEN 57
             ELSE IF q % 2 = 0 THEN q ELSE q + 1
    IN  ToString(n) \o "%"

\* A medium band that starts above 0.5.
MediumOrAbove_Strict(score) == score > 500

\* The test `signal.risk_score >= 0.5` of _rule_decision (line 171).
MediumOrAbove(score) == score >= 500

\* HybridDecisionEngine._rule_decision; `decision` is <<>> for None.
rule_decision(signal, decision) ==
    LET s == signal.risk_score
        d == IF decision = <<>>
             THEN IF s < low_threshold THEN "allow"
                  ELSE IF s > high_threshold THEN "block"
                  ELSE IF MediumOrAbove(s) THEN "throttle"
                  ELSE "allow"
             ELSE decision[1]
        confidence ==
             IF decision = <<>>
             THEN IF s < low_threshold THEN 90
                  ELSE IF s > high_threshold THEN 90
                  ELSE 70
             ELSE IF d \in {"allow", "block"} THEN 90 ELSE 70
        reason ==
             IF d = "allow" THEN "Low risk (" \o PercentText(s) \o ") - auto-approved by rules"
             ELSE IF d = "block" THEN "High risk (" \o PercentText(s) \o ") - auto-blocked by rules"
             ELSE IF d = "throttle" THEN "Medium risk (" \o PercentText(s) \o ") - rate limited by rules"
             ELSE "Risk score " \o PercentText(s) \o " - rule-based decision"
    IN  DecisionResult(d, confidence, reason, "rule", signal.correlation_id, signal.actor_id)

\* The counters _rule_decision bumps (lines 193-194).
StatsRule(st) ==
    [st EXCEPT !.rule_decisions = @ + 1, !.total_decisions = @ + 1]

\* The counters _query_ai bumps on a parsed response (lines 263-264).
StatsAI(st) ==
    [st EXCEPT !.ai_decisions = @ + 1, !.total_decisions = @ + 1]

(***************************************************************************)
(* The text of an AI response, by its shape.  `fence` tells how a markdown *)
(* code fence surrounds the body: "none"; "closed" (a ``` line before and  *)
(* after); "unclosed" (only the opening ``` line); "trailing" (closing ``` *)
(* line followed by more text); "inline" (fences and body on one line).    *)
(* `body` is what stands inside: a JSON object, another JSON value, text   *)
(* that is no JSON, or nothing.  For an object, `decision` is the value of *)
(* that key ("absent" without it), `confidence` the kind and value         *)
(* (hundredths) of that key, `reason` <<>> or <<text>>.                    *)
(***************************************************************************)
ResponseText(fence, body, decision, confidence, reason) ==
    [fence |-> fence, body |-> body, decision |-> decision,
     confidence |-> confidence, reason |-> reason]

Confidence(kind, value) == [kind |-> kind, value |-> value]

\* What the AI backend answers to the engine of the model: a plain object, a
\* fenced object with an unknown decision and a confidence out of range, and
\* text that is no JSON.
AIResponses ==
    { ResponseText("none", "object", "block", Confidence("number", 95),
                   <<"exfiltration pattern">>),
      ResponseText("closed", "object", "deny", Confidence("number", 150), <<"policy">>),
      ResponseText("none", "garbage", "absent", Confidence("absent", 0), <<>>) }

\* Lines 303-306: what is left for json.loads after strip() and the fence
\* handling.  With a closing fence on the last line lines[1:-1] is the body
\* (empty when everything is on one line); otherwise lines[1:] keeps
\* whatever follows the opening line.
StripFence(response) ==
    IF response.fence \in {"none", "closed", "unclosed"} THEN response.body
    ELSE IF response.fence = "inline" THEN "empty"
    ELSE "garbage"

\* json.loads raises on text that is no JSON value.
JsonLoads(text) == text \in {"object", "array", "string", "number", "null"}

\* float(): a number or a numeric string converts, anything else raises.
FloatOf(confidence) ==
    IF confidence.kind = "absent" THEN [ok |-> TRUE, value |-> 50]
    ELSE IF confidence.kind \in {"number", "numstr"}
    THEN [ok |-> TRUE, value |-> confidence.value]
    ELSE [ok |-> FALSE, value |-> 0]

\* Whether the try block of _parse_ai_response raises (lines 308-315):
\* json.loads fails, the value has no .get, or float() fails.
ParseRaises(response) ==
    \/ ~JsonLoads(StripFence(response))
    \/ StripFence(response) # "object"
    \/ ~FloatOf(response.confidence).ok

ParseFailureReason == "AI response parsing failed, using fallback"

\* A fallback that throttles only above 0.6.
ParseFallback_Above(signal) ==
    IF signal.risk_score > 600
    THEN [decision |-> "throttle", confidence |-> 60, reason |-> ParseFailureReason]
    ELSE [decision |-> "allow", confidence |-> 60, reason |-> ParseFailureReason]

\* The except branch of _parse_ai_response (lines 316-320).
ParseFallback(signal) ==
    IF signal.risk_score >= 600
    THEN [decision |-> "throttle", confidence |-> 60, reason |-> ParseFailureReason]
    ELSE [decision |-> "allow", confidence |-> 60, reason |-> ParseFailureReason]

\* HybridDecisionEngine._parse_ai_response
parse_ai_response(response, signal) ==
    IF ~ParseRaises(response)
    THEN [decision |-> IF response.decision \in {"allow", "throttle", "block", "escalate"}
                       THEN response.decision ELSE "escalate",
          confidence |-> Max(0, Min(100, FloatOf(response.confidence).value)),
          reason |-> IF response.reason = <<>> THEN "AI decision" ELSE response.reason[1]]
    ELSE ParseFallback(signal)

\* The DecisionResult _query_ai builds from a response (lines 260-276).
ai_result(response, signal) ==
    LET result == parse_ai_response(response, signal)
    IN  DecisionResult(result.decision, result.confidence, result.reason, "ai",
                       signal.correlation_id, signal.actor_id)

\* A hit path that forgets to re-bind the copy.
rebind_cached_Forgotten(cached, signal) == cached

\* decide() on a cache hit: the copy get() returned, re-bound to the signal
\* (lines 138-144).
rebind_cached(cached, signal) ==
    [cached EXCEPT !.correlation_id = signal.correlation_id,
                   !.actor_id = signal.actor_id]

\* HybridDecisionEngine._init_ai_client: TRUE when a client exists or can be built.
init_ai_client == e_client = "ready" \/ e_api_key

NoSignal == MakeSignal("", 0, [risk_score |-> 0, risk_factors |-> <<>>, action |-> "",
                               role |-> "", geo_change |-> FALSE,
                               resource_sensitivity |-> ""])

NewStats == [rule_decisions |-> 0, cache_hits |-> 0, ai_decisions |-> 0, ai_pending |-> 0,
             ai_queue_size |-> 0, total_decisions |-> 0]

\* HybridDecisionEngine.__init__ (the cache is built by InitCacheWith), with
\* max_queue_size drawn from `limits` and the presence of an API key from `keys`.
InitEngineWith(limits, keys) ==
    /\ e_mode = "hybrid"
    /\ e_semaphore = Semaphore(MaxConcurrentAI)
    /\ e_queue_size = 0
    /\ e_max_queue \in limits
    /\ e_api_key \in keys
    /\ e_client = "none"
    /\ e_stats = NewStats
    /\ e_pc = [t \in Tasks |-> "idle"]
    /\ e_sig = [t \in Tasks |-> NoSignal]
    /\ e_last = [task |-> "", signal |-> NoSignal, ret |-> <<>>, path |-> "none"]
    /\ e_calls = 0

\* A task may call decide() when it is not inside one.
CanDecide(t) == e_pc[t] = "idle" /\ e_calls < MaxDecides

\* The patterns decide() is given: both thresholds and a score outside each.
EnginePatterns == {p \in Patterns : p.risk_score \in {100, 300, 800, 900}}

\* Each task decides for one actor.
ActorOf(t) == IF t = "t1" THEN "u1" ELSE "u2"

\* The signal of the next decide() call of task t: its correlation id is fresh.
NextSignal(t, p) == MakeSignal(ActorOf(t), e_calls + 1, p)

\* A routing that forgets FAST mode.
ClearCut_IgnoresMode(signal) ==
    \/ signal.risk_score < low_threshold
    \/ signal.risk_score > high_threshold

\* A routing whose thresholds are inclusive.
ClearCut_Inclusive(signal) ==
    \/ e_mode = "fast"
    \/ signal.risk_score <= low_threshold
    \/ signal.risk_score >= high_threshold

\* A FULL_AI mode that sends clear-cut scores to the AI as well.
ClearCut_FullAISkipsRules(signal) ==
    \/ e_mode = "fast"
    \/ /\ e_mode = "hybrid"
       /\ \/ signal.risk_score < low_threshold
          \/ signal.risk_score > high_threshold

\* Lines 125-133: the signal is decided by rules alone.
ClearCut(signal) ==
    \/ e_mode = "fast"
    \/ signal.risk_score < low_threshold
    \/ signal.risk_score > high_threshold

\* decide() returns to task t.
Return(t, signal, result, path) ==
    /\ e_pc' = [e_pc EXCEPT ![t] = "idle"]
    /\ e_sig' = [e_sig EXCEPT ![t] = NoSignal]
    /\ e_last' = [task |-> t, signal |-> signal, ret |-> result, path |-> path]

\* decide(): FAST mode or a clear-cut score, the rule decision (lines 122-133).
DecideRule(t, signal) ==
    /\ CanDecide(t)
    /\ ClearCut(signal)
    /\ e_calls' = e_calls + 1
    /\ e_stats' = StatsRule(e_stats)
    /\ Return(t, signal,
              <<IF e_mode = "fast" THEN rule_decision(signal, <<>>)
                ELSE IF signal.risk_score < low_threshold
                THEN rule_decision(signal, <<"allow">>)
                ELSE rule_decision(signal, <<"block">>)>>,
              IF e_mode = "fast" THEN "fast"
              ELSE IF signal.risk_score < low_threshold THEN "low" ELSE "high")
    /\ UNCHANGED <<e_mode, e_semaphore, e_queue_size, e_max_queue, e_api_key, e_client>>
    /\ UNCHANGED <<cache, hits, misses>>

\* decide(): an ambiguous score and a cache hit (lines 135-144).
DecideCacheHit(t, signal) ==
    /\ CanDecide(t)
    /\ ~ClearCut(signal)
    /\ LET g == CacheGet(cache, compute_pattern_hash(signal), now, CacheTtl)
       IN  /\ g.hit
           /\ cache' = g.cache
           /\ hits' = hits + 1
           /\ Return(t, signal, <<rebind_cached(g.ret[1], signal)>>, "cache")
    /\ e_calls' = e_calls + 1
    /\ UNCHANGED <<e_mode, e_semaphore, e_queue_size, e_max_queue, e_api_key, e_client,
                   e_stats, misses>>

\* A finally clause that forgets the counter.
QueueSizeAfterExit_Kept(size) == size

\* `self._ai_queue_size -= 1` in the finally clause (line 233).
QueueSizeAfterExit(size) == size - 1

\* An overflow test that lets one call more in.
AIQueueFull_Strict(size, limit) == size > limit

\* The overflow test of _ai_decision (line 216).
AIQueueFull(size, limit) == size >= limit

\* decide(): a cache miss with the AI queue full, the rule decision
\* (lines 135-148 and 215-218).
DecideOverflow(t, signal) ==
    /\ CanDecide(t)
    /\ ~ClearCut(signal)
    /\ LET g == CacheGet(cache, compute_pattern_hash(signal), now, CacheTtl)
       IN  /\ ~g.hit
           /\ cache' = g.cache
    /\ misses' = misses + 1
    /\ AIQueueFull(e_queue_size, e_max_queue)
    /\ e_calls' = e_calls + 1
    /\ e_stats' = StatsRule(e_stats)
    /\ Return(t, signal, <<rule_decision(signal, <<>>)>>, "overflow")
    /\ UNCHANGED <<e_mode, e_semaphore, e_queue_size, e_max_queue, e_api_key, e_client, hits>>

\* _ai_decision and _query_ai from the moment task t holds the semaphore
\* (lines 225-234 and 238-258), for signal `signal`, the semaphore `sem` as
\* the acquire left it, the cache `c`, and `qs` calls pending, t included.
\* Without a client the rule decision comes back at once, is stored in the
\* cache (line 229) and returned; with one the call to the model is awaited.
HoldSemaphore(t, signal, sem, c, qs) ==
    LET pending == [e_stats EXCEPT !.ai_pending = MaxConcurrentAI - sem.value,
                                   !.ai_queue_size = qs]
    IN  IF init_ai_client
        THEN /\ e_client' = "ready"
             /\ e_semaphore' = sem
             /\ e_queue_size' = qs
             /\ e_stats' = pending
             /\ cache' = c
             /\ e_pc' = [e_pc EXCEPT ![t] = "ai"]
             /\ e_sig' = [e_sig EXCEPT ![t] = signal]
             /\ e_last' = e_last
        ELSE LET result == rule_decision(signal, <<>>)
                 p == CachePut(c, compute_pattern_hash(signal), result, now, max_size)
             IN  /\ e_client' = e_client
                 /\ e_semaphore' = SemRelease(sem)
                 /\ e_queue_size' = QueueSizeAfterExit(qs)
                 /\ e_stats' = [StatsRule(pending) EXCEPT
                                   !.ai_queue_size = QueueSizeAfterExit(qs)]
                 /\ cache' = p.cache
                 /\ IF p.raised
                    THEN Return(t, signal, <<>>, "KeyError")
                    ELSE Return(t, signal, <<result>>, "no_client")

\* decide(): a cache miss, room in the AI queue, the semaphore is free
\* (lines 135-148, 215-226).
DecideAcquire(t, signal) ==
    /\ CanDecide(t)
    /\ ~ClearCut(signal)
    /\ ~AIQueueFull(e_queue_size, e_max_queue)
    /\ ~SemLocked(e_semaphore)
    /\ LET g == CacheGet(cache, compute_pattern_hash(signal), now, CacheTtl)
       IN  /\ ~g.hit
           /\ HoldSemaphore(t, signal, SemAcquire(e_semaphore, t).sem, g.cache,
                            e_queue_size + 1)
    /\ misses' = misses + 1
    /\ e_calls' = e_calls + 1
    /\ UNCHANGED <<e_mode, e_max_queue, e_api_key, hits>>

\* decide(): a cache miss, room in the AI queue, the semaphore is taken: the
\* call waits in the semaphore's FIFO (lines 135-148, 215-224).
DecideWait(t, signal) ==
    /\ CanDecide(t)
    /\ ~ClearCut(signal)
    /\ ~AIQueueFull(e_queue_size, e_max_queue)
    /\ SemLocked(e_semaphore)
    /\ LET g == CacheGet(cache, compute_pattern_hash(signal), now, CacheTtl)
       IN  /\ ~g.hit
           /\ cache' = g.cache
    /\ misses' = misses + 1
    /\ e_calls' = e_calls + 1
    /\ e_semaphore' = SemAcquire(e_semaphore, t).sem
    /\ e_queue_size' = e_queue_size + 1
    /\ e_stats' = [e_stats EXCEPT !.ai_queue_size = e_queue_size + 1]
    /\ e_pc' = [e_pc EXCEPT ![t] = "wait"]
    /\ e_sig' = [e_sig EXCEPT ![t] = signal]
    /\ UNCHANGED <<e_mode, e_max_queue, e_api_key, e_client, e_last, hits>>

\* A woken waiter runs again holding the semaphore (lines 224-226).
Granted(t) ==
    /\ e_pc[t] = "wait"
    /\ t \in e_semaphore.granted
    /\ HoldSemaphore(t, e_sig[t], SemResume(e_semaphore, t), cache, e_queue_size)
    /\ UNCHANGED <<e_mode, e_max_queue, e_api_key, e_calls, hits, misses>>

\* The end of _ai_decision for task t with `result` from _query_ai: the
\* result is stored (line 229), the semaphore released, the counter
\* decremented (lines 231-234).
FinishAI(t, result, st, path) ==
    LET p == CachePut(cache, compute_pattern_hash(e_sig[t]), result, now, max_size)
    IN  /\ cache' = p.cache
        /\ e_semaphore' = SemRelease(e_semaphore)
        /\ e_queue_size' = QueueSizeAfterExit(e_queue_size)
        /\ e_stats' = [st EXCEPT !.ai_queue_size = QueueSizeAfterExit(e_queue_size)]
        /\ IF p.raised
           THEN Return(t, e_sig[t], <<>>, "KeyError")
           ELSE Return(t, e_sig[t], <<result>>, path)
        /\ UNCHANGED <<e_mode, e_max_queue, e_api_key, e_client, e_calls, hits, misses>>

\* The model answers (lines 260-276, then 228-234).
AIResponds(t, response) ==
    /\ e_pc[t] = "ai"
    /\ FinishAI(t, ai_result(response, e_sig[t]), StatsAI(e_stats),
                IF ParseRaises(response) THEN "ai_unparsed" ELSE "ai")

\* The call to the model raises (lines 278-280, then 228-234).
AIRaises(t) ==
    /\ e_pc[t] = "ai"
    /\ FinishAI(t, rule_decision(e_sig[t], <<>>), StatsRule(e_stats), "ai_error")

\* HybridDecisionEngine.set_mode
SetMode(m) ==
    /\ e_calls < MaxDecides
    /\ e_mode # m
    /\ e_mode' = m
    /\ UNCHANGED <<e_semaphore, e_queue_size, e_max_queue, e_api_key, e_client, e_stats,
                   e_pc, e_sig, e_last, e_calls>>
    /\ UNCHANGED <<cache, hits, misses>>

engineFrame == <<max_size, now, c_last, c_putAt, c_ops, queueVars, exercised, unitVars, otherVars>>

NextEngine ==
    \/ \E t \in Tasks, p \in EnginePatterns :
          DecideRule(t, NextSignal(t, p)) /\ UNCHANGED engineFrame
    \/ \E t \in Tasks, p \in EnginePatterns :
          DecideCacheHit(t, NextSignal(t, p)) /\ UNCHANGED engineFrame
    \/ \E t \in Tasks, p \in EnginePatterns :
          DecideOverflow(t, NextSignal(t, p)) /\ UNCHANGED engineFrame
    \/ \E t \in Tasks, p \in EnginePatterns :
          DecideAcquire(t, NextSignal(t, p)) /\ UNCHANGED engineFrame
    \/ \E t \in Tasks, p \in EnginePatterns :
          DecideWait(t, NextSignal(t, p)) /\ UNCHANGED engineFrame
    \/ \E t \in Tasks : Granted(t) /\ UNCHANGED engineFrame
    \/ \E t \in Tasks, r \in AIResponses : AIResponds(t, r) /\ UNCHANGED engineFrame
    \/ \E t \in Tasks : AIRaises(t) /\ UNCHANGED engineFrame
    \/ \E m \in Modes : SetMode(m) /\ UNCHANGED engineFrame
    \/ Tick /\ UNCHANGED <<queueVars, engineVars, exercised, unitVars, otherVars>>

\* The task of decide() call t is cancelled while the call waits in the
\* semaphore's acquire (line 224): the CancelledError leaves through the
\* finally clause (lines 232-234) and out of decide().
CancelWaiting(t) ==
    /\ e_pc[t] = "wait"
    /\ e_semaphore' = SemCancel(e_semaphore, t)
    /\ e_queue_size' = QueueSizeAfterExit(e_queue_size)
    /\ e_stats' = [e_stats EXCEPT !.ai_queue_size = QueueSizeAfterExit(e_queue_size)]
    /\ Return(t, e_sig[t], <<>>, "CancelledError")
    /\ UNCHANGED <<e_mode, e_max_queue, e_api_key, e_client, e_calls>>
    /\ UNCHANGED <<cache, hits, misses>>

\* The task is cancelled while the call to the model is awaited (line 248):
\* CancelledError is no Exception, so line 278 does not catch it; leaving
\* `async with` releases the semaphore, then the finally clause runs.
CancelCalling(t) ==
    /\ e_pc[t] = "ai"
    /\ e_semaphore' = SemRelease(e_semaphore)
    /\ e_queue_size' = QueueSizeAfterExit(e_queue_size)
    /\ e_stats' = [e_stats EXCEPT !.ai_queue_size = QueueSizeAfterExit(e_queue_size)]
    /\ Return(t, e_sig[t], <<>>, "CancelledError")
    /\ UNCHANGED <<e_mode, e_max_queue, e_api_key, e_client, e_calls>>
    /\ UNCHANGED <<cache, hits, misses>>

\* The engine with callers whose tasks may be cancelled.
NextEngineCancel ==
    \/ NextEngine
    \/ \E t \in Tasks : CancelWaiting(t) /\ UNCHANGED engineFrame
    \/ \E t \in Tasks : CancelCalling(t) /\ UNCHANGED engineFrame

(***************************************************************************)
(* WindowedCounter (frequency_tracker.py), called from stage worker        *)
(* threads.  Times are whole seconds.                                      *)
(***************************************************************************)
Workers == {"w1", "w2"}

TrackedActors == {"A", "B"}

window_size_seconds == 60

bucket_size_seconds == 5

\* Event timestamps and query times: inside one bucket, on a bucket boundary,
\* one window later on either side of a boundary, and far later.
Stamps == {1, 3, 5, 62, 64, 66, 130}

EmptyMap == [k \in {} |-> 0]

\* WindowedCounter._get_bucket_key
get_bucket_key(ts) == (ts \div bucket_size_seconds) * bucket_size_seconds

\* `self._buckets[actor_id]` on the defaultdict: a missing actor gets an
\* empty bucket map.
Touch(b, actor) ==
    IF actor \in DOMAIN b THEN b
    ELSE [a \in DOMAIN b \cup {actor} |-> IF a = actor THEN EmptyMap ELSE b[a]]

\* `self._buckets[actor_id][bucket_key] += 1` (line 61)
Increment(b, actor, key) ==
    LET m == Touch(b, actor)[actor]
        m2 == [k \in DOMAIN m \cup {key} |->
                  IF k = key THEN (IF k \in DOMAIN m THEN m[k] ELSE 0) + 1 ELSE m[k]]
    IN  [a \in DOMAIN b \cup {actor} |-> IF a = actor THEN m2 ELSE b[a]]

\* WindowedCounter._cleanup_old_buckets
cleanup_old_buckets(b, actor, current_time) ==
    LET m == Touch(b, actor)[actor]
        kept == {k \in DOMAIN m : ~(k < current_time - window_size_seconds)}
    IN  [a \in DOMAIN b \cup {actor} |->
            IF a = actor THEN [k \in kept |-> m[k]] ELSE b[a]]

RECURSIVE SumCounts(_, _)
SumCounts(m, keys) ==
    IF keys = {} THEN 0
    ELSE LET k == CHOOSE x \in keys : TRUE
         IN  m[k] + SumCounts(m, keys \ {k})

\* The sum get_frequency computes under the lock (lines 80-81).
window_sum(b, actor, current_time) ==
    IF actor \notin DOMAIN b THEN 0
    ELSE SumCounts(b[actor], {k \in DOMAIN b[actor] : k >= current_time - window_size_seconds})

\* threading.Lock: acquire succeeds only on a free lock, whoever holds it.
LockAvailable(lock, w) == lock = ""

NoTrackerCall == [op |-> "none", actor |-> "", ts |-> 0]

\* WindowedCounter() as FrequencyTracker.__init__ builds it.
InitTracker ==
    /\ f_buckets = EmptyMap
    /\ f_lock = ""
    /\ f_pc = [w \in Workers |-> "idle"]
    /\ f_args = [w \in Workers |-> NoTrackerCall]
    /\ f_ret = [w \in Workers |-> <<>>]
    /\ f_events = <<>>
    /\ f_calls = 0

\* A worker thread calls record_event, get_frequency or get_all_frequencies
\* and runs up to the `with self._lock` of the method (lines 57-60, 76-79,
\* 85-88).
TrackerCall(w, op, actor, ts) ==
    /\ f_pc[w] = "idle"
    /\ f_calls < MaxTrackerCalls
    /\ f_calls' = f_calls + 1
    /\ f_pc' = [f_pc EXCEPT ![w] = "outer"]
    /\ f_args' = [f_args EXCEPT ![w] = [op |-> op, actor |-> actor, ts |-> ts]]
    /\ f_ret' = [f_ret EXCEPT ![w] = <<>>]
    /\ UNCHANGED <<f_buckets, f_lock, f_events>>

\* The call of worker w returns `value`, leaving the lock free.
TrackerReturn(w, value) ==
    /\ f_pc' = [f_pc EXCEPT ![w] = "idle"]
    /\ f_ret' = [f_ret EXCEPT ![w] = <<value>>]
    /\ f_lock' = ""

\* The call of worker w, inside its `with self._lock`, calls get_frequency,
\* which waits for the same lock (lines 63 and 91 reaching line 79).
TrackerNested(w) ==
    /\ f_pc' = [f_pc EXCEPT ![w] = "inner"]
    /\ f_ret' = f_ret
    /\ f_lock' = w

\* The frequencies get_all_frequencies collects (lines 89-93).
AllFrequencies(b, t) ==
    LET live == {a \in DOMAIN b : window_sum(b, a, t) > 0}
    IN  [a \in live |-> window_sum(b, a, t)]

RECURSIVE CleanupAll(_, _, _)
CleanupAll(b, actors, t) ==
    IF actors = {} THEN b
    ELSE LET a == CHOOSE x \in actors : TRUE
         IN  CleanupAll(cleanup_old_buckets(b, a, t), actors \ {a}, t)

\* A thread waiting in `with self._lock` gets the lock and runs on to its
\* next wait or to its return.  At the method's own `with` (pc "outer"):
\* get_frequency sums and returns; record_event counts the event, cleans up
\* and calls get_frequency; get_all_frequencies returns {} for an empty
\* tracker, else cleans up the first actor and calls get_frequency.  At the
\* nested `with` of get_frequency (pc "inner") the call finishes.
LockAcquired(w) ==
    /\ f_pc[w] \in {"outer", "inner"}
    /\ LockAvailable(f_lock, w)
    /\ LET op == f_args[w].op
           actor == f_args[w].actor
           t == f_args[w].ts
       IN  IF f_pc[w] = "outer"
           THEN IF op = "get_frequency"
                THEN /\ TrackerReturn(w, window_sum(f_buckets, actor, t))
                     /\ UNCHANGED <<f_buckets, f_events>>
                ELSE IF op = "record_event"
                THEN /\ f_buckets' = cleanup_old_buckets(
                                         Increment(f_buckets, actor, get_bucket_key(t)),
                                         actor, t)
                     /\ f_events' = Append(f_events, [actor |-> actor, ts |-> t])
                     /\ TrackerNested(w)
                ELSE IF DOMAIN f_buckets = {}
                THEN /\ TrackerReturn(w, EmptyMap)
                     /\ UNCHANGED <<f_buckets, f_events>>
                ELSE /\ f_buckets' = cleanup_old_buckets(
                                         f_buckets, CHOOSE a \in DOMAIN f_buckets : TRUE, t)
                     /\ f_events' = f_events
                     /\ TrackerNested(w)
           ELSE IF op = "record_event"
                THEN /\ TrackerReturn(w, window_sum(f_buckets, actor, t))
                     /\ UNCHANGED <<f_buckets, f_events>>
                ELSE /\ f_buckets' = CleanupAll(f_buckets, DOMAIN f_buckets, t)
                     /\ TrackerReturn(w, AllFrequencies(f_buckets', t))
                     /\ f_events' = f_events
    /\ UNCHANGED <<f_args, f_calls>>

trackerFrame == <<cacheVars, queueVars, engineVars, exercised, unitVars, limiterVars, restVars>>

NextTracker ==
    \/ \E w \in Workers, op \in {"record_event", "get_frequency"},
          a \in TrackedActors, ts \in Stamps :
          TrackerCall(w, op, a, ts) /\ UNCHANGED trackerFrame
    \/ \E w \in Workers, ts \in Stamps :
          TrackerCall(w, "get_all_frequencies", "", ts) /\ UNCHANGED trackerFrame
    \/ \E w \in Workers : LockAcquired(w) /\ UNCHANGED trackerFrame

(***************************************************************************)
(* Functions called on their own.                                          *)
(***************************************************************************)
\* A signal with the given score.
ScoredSignal(score) ==
    MakeSignal("u1", 1, [risk_score |-> score, risk_factors |-> <<>>,
                         action |-> "file_read", role |-> "developer",
                         geo_change |-> FALSE, resource_sensitivity |-> "low"])

\* The response texts _parse_ai_response is given: every fence around every
\* body, the objects with every combination of the three keys.
ResponseTexts ==
    { ResponseText(f, "object", d, c, r) :
        f \in {"none", "closed", "unclosed", "trailing", "inline"},
        d \in {"allow", "throttle", "block", "escalate", "deny", "absent"},
        c \in { Confidence("absent", 0), Confidence("number", 95), Confidence("number", 150),
                Confidence("number", -20), Confidence("numstr", 90),
                Confidence("text", 0), Confidence("null", 0) },
        r \in {<<>>, <<"exfiltration pattern">>} }
    \cup
    { ResponseText(f, b, "absent", Confidence("absent", 0), <<>>) :
        f \in {"none", "closed", "unclosed", "trailing", "inline"},
        b \in {"array", "string", "number", "null", "garbage", "empty"} }

\* The scores around the 0.6 fallback threshold.
ParseScores == {0, 599, 600, 601, 1000}

\* Everything but the function under call stays as constructed.
unitFrame == <<cacheVars, queueVars, engineVars, exercised, otherVars>>

\* One call of HybridDecisionEngine._parse_ai_response.
ParseCall ==
    /\ u_result = <<>>
    /\ u_result' = <<parse_ai_response(u_args.response, u_args.signal)>>
    /\ UNCHANGED <<u_args, unitFrame>>

NextParse == ParseCall

\* The calls of _rule_decision the engine makes: without a decision (FAST
\* mode, fallbacks) for any score, with "allow" below the low threshold and
\* with "block" above the high one (lines 126, 130, 133).
RuleCalls ==
    { [signal |-> ScoredSignal(x), decision |-> <<>>] : x \in 0..1000 }
    \cup { [signal |-> ScoredSignal(x), decision |-> <<"allow">>] : x \in 0..(low_threshold - 1) }
    \cup { [signal |-> ScoredSignal(x), decision |-> <<"block">>] :
              x \in (high_threshold + 1)..1000 }

\* One call of HybridDecisionEngine._rule_decision.
RuleCall ==
    /\ u_result = <<>>
    /\ u_result' = <<rule_decision(u_args.signal, u_args.decision)>>
    /\ UNCHANGED <<u_args, unitFrame>>

NextRule == RuleCall

\* No function is called on its own in this run.
NoUnitCall == u_args = <<>> /\ u_result = <<>>

(***************************************************************************)
(* SignalProcessor (signal_processor.py): scores in thousandths.           *)
(***************************************************************************)
normal_frequency_max == 5

elevated_frequency_threshold == 10

high_frequency_threshold == 20

\* RiskScoringConfig.suspicious_combinations, as (role, action).
suspicious_combinations ==
    { <<"developer", "admin_access">>, <<"analyst", "config_change">>,
      <<"support", "data_delete">>, <<"developer", "bulk_export">> }

\* A table that gives an unlisted sensitivity no weight.
SensitivityScore_UnknownZero(sensitivity) ==
    IF sensitivity = "low" THEN 25
    ELSE IF sensitivity = "medium" THEN 75
    ELSE IF sensitivity = "high" THEN 150
    ELSE IF sensitivity = "critical" THEN 250
    ELSE 0

\* sensitivity_scores.get(resource_sensitivity, 0.3) * sensitivity_weight
SensitivityScore(sensitivity) ==
    IF sensitivity = "low" THEN 25
    ELSE IF sensitivity = "medium" THEN 75
    ELSE IF sensitivity = "high" THEN 150
    ELSE IF sensitivity = "critical" THEN 250
    ELSE 75

\* `real_frequency if real_frequency is not None else event.frequency_last_60s`
FrequencyUsed(event, real_frequency) ==
    IF real_frequency # <<>> THEN real_frequency[1] ELSE event.frequency_last_60s

\* SignalProcessor.calculate_risk_score; `real_frequency` is <<>> for None.
calculate_risk_score(event, real_frequency) ==
    LET frequency == FrequencyUsed(event, real_frequency)
        freq == IF frequency > high_frequency_threshold THEN 300
                ELSE IF frequency > elevated_frequency_threshold THEN 180
                ELSE IF frequency > normal_frequency_max THEN 90
                ELSE 0
        geo == IF event.geo_change THEN 250 ELSE 0
        combo == IF <<event.role, event.action>> \in suspicious_combinations THEN 200
                 ELSE IF event.role \in {"admin", "superuser", "root"} THEN 60
                 ELSE 0
    IN  Min(freq + geo + SensitivityScore(event.resource_sensitivity) + combo, 1000)

\* SignalProcessor.identify_risk_factors
identify_risk_factors(event, real_frequency) ==
    LET frequency == FrequencyUsed(event, real_frequency)
    IN  (IF frequency > high_frequency_threshold
         THEN <<"high_frequency_activity (" \o ToString(frequency) \o "/min)">>
         ELSE IF frequency > elevated_frequency_threshold
         THEN <<"elevated_frequency (" \o ToString(frequency) \o "/min)">>
         ELSE <<>>)
        \o (IF event.geo_change THEN <<"geographic_anomaly">> ELSE <<>>)
        \o (IF event.resource_sensitivity \in {"high", "critical"}
            THEN <<"sensitive_resource_" \o event.resource_sensitivity>> ELSE <<>>)
        \o (IF <<event.role, event.action>> \in suspicious_combinations
            THEN <<"suspicious_role_action_combination">> ELSE <<>>)
        \o (IF event.role \in {"admin", "superuser", "root"}
            THEN <<"elevated_privileges">> ELSE <<>>)
        \o (IF event.action \in {"bulk_export", "data_delete", "config_change"}
            THEN <<"sensitive_action_" \o event.action>> ELSE <<>>)

\* The RiskSignal process_event builds (lines 252-262); `uuid` is the text of
\* uuid.uuid4().
RiskSignal(event, real_frequency, uuid) ==
    [actor_id |-> event.actor_id,
     risk_score |-> calculate_risk_score(event, real_frequency),
     risk_factors |-> identify_risk_factors(event, real_frequency),
     original_event |-> event,
     processing_timestamp |-> now * 1000,
     correlation_id |-> uuid]

\* What uuid.uuid4() may give.
Uuids == {"uuid-1", "uuid-2"}

\* The thread process_event runs in.
ProcessorThread == "w1"

\* The events process_event is given.
StageEvents ==
    { [actor_id |-> a, action |-> ra[2], role |-> ra[1], frequency_last_60s |-> f,
       geo_change |-> g, timestamp |-> ts, session_id |-> "s1",
       resource_sensitivity |-> rs] :
        a \in {"u1", "u2"},
        ra \in { <<"developer", "file_read">>, <<"analyst", "config_change">>,
                 <<"admin", "data_delete">> },
        f \in {0, 6, 11, 21}, g \in BOOLEAN, ts \in {1000, 62000},
        rs \in {"low", "critical", "unlisted"} }

\* process_event up to its first wait.  Without a tracker
\* (use_real_frequency=False) the signal is built and returned; with one,
\* record_event is called with the event's timestamp in seconds (lines 244-250).
ProcessEventCall ==
    /\ u_args.fn = "process_event"
    /\ u_result = <<>>
    /\ f_pc[ProcessorThread] = "idle"
    /\ f_calls = 0
    /\ IF u_args.use_real_frequency
       THEN /\ TrackerCall(ProcessorThread, "record_event", u_args.event.actor_id,
                           u_args.event.timestamp \div 1000)
            /\ u_result' = u_result
       ELSE /\ \E uuid \in Uuids : u_result' = <<RiskSignal(u_args.event, <<>>, uuid)>>
            /\ UNCHANGED trackerVars
    /\ UNCHANGED <<u_args, cacheVars, queueVars, engineVars, exercised, limiterVars, restVars>>

\* process_event inside record_event: the thread goes on when it gets the
\* lock, and builds the signal once record_event has returned.
ProcessEventResume ==
    /\ u_args.fn = "process_event"
    /\ u_result = <<>>
    /\ LockAcquired(ProcessorThread)
    /\ IF f_pc'[ProcessorThread] = "idle"
       THEN \E uuid \in Uuids :
               u_result' = <<RiskSignal(u_args.event, f_ret'[ProcessorThread], uuid)>>
       ELSE u_result' = u_result
    /\ UNCHANGED <<u_args, cacheVars, queueVars, engineVars, exercised, limiterVars, restVars>>

(***************************************************************************)
(* DecisionAgent (decision_agent.py): confidence in hundredths.            *)
(***************************************************************************)
\* What generate_content does: it answers with a text or raises.
Answer(response) == [raises |-> FALSE, response |-> response, error |-> ""]

Raise(error) == [raises |-> TRUE, response |-> <<>>, error |-> error]

\* DecisionAgent._parse_ai_response (lines 153-161): what json.loads is
\* given.  The closing fence is dropped when the last line is ``` itself.
AgentStripFence(response) ==
    IF response.fence \in {"none", "closed", "unclosed"} THEN response.body
    ELSE IF response.fence = "inline" THEN "empty"
    ELSE "garbage"

\* The text of the exception the try block of query_ai ends with, "" when it
\* ends normally (lines 189-210): generate_content raises, json.loads raises,
\* the value has no .get, or float() raises in _validate_decision.
QueryError(outcome) ==
    IF outcome.raises THEN outcome.error
    ELSE IF ~JsonLoads(AgentStripFence(outcome.response)) THEN "Expecting value"
    ELSE IF AgentStripFence(outcome.response) # "object" THEN "object has no attribute 'get'"
    ELSE IF ~FloatOf(outcome.response.confidence).ok THEN "could not convert to float"
    ELSE ""

\* A validation that lets the confidence through as it is.
validate_decision_Unclamped(decision, confidence) ==
    [decision |-> IF decision \in {"allow", "throttle", "block", "escalate"}
                  THEN decision ELSE "escalate",
     confidence |-> FloatOf(confidence).value]

\* DecisionAgent._validate_decision
validate_decision(decision, confidence) ==
    [decision |-> IF decision \in {"allow", "throttle", "block", "escalate"}
                  THEN decision ELSE "escalate",
     confidence |-> Max(0, Min(100, FloatOf(confidence).value))]

\* DecisionAgent._fallback_decision
fallback_decision(signal, error) ==
    LET s == signal.risk_score
        reason == "Fallback decision (AI unavailable: " \o error \o ")"
    IN  IF s >= 800 THEN [decision |-> "block", confidence |-> 70, reason |-> reason]
        ELSE IF s >= 500 THEN [decision |-> "escalate", confidence |-> 60, reason |-> reason]
        ELSE IF s >= 300 THEN [decision |-> "throttle", confidence |-> 60, reason |-> reason]
        ELSE [decision |-> "allow", confidence |-> 70, reason |-> reason]

\* DecisionAgent.query_ai
query_ai(signal, outcome) ==
    IF QueryError(outcome) = ""
    THEN LET v == validate_decision(
                      IF outcome.response.decision = "absent" THEN "escalate"
                      ELSE outcome.response.decision,
                      outcome.response.confidence)
         IN  [decision |-> v.decision, confidence |-> v.confidence,
              reason |-> IF outcome.response.reason = <<>> THEN "AI decision"
                         ELSE outcome.response.reason[1]]
    ELSE fallback_decision(signal, QueryError(outcome))

\* A decision that is not tied to its signal.
make_decision_Untraced(signal, outcome) ==
    LET answer == query_ai(signal, outcome)
    IN  [actor_id |-> signal.actor_id,
         decision |-> answer.decision,
         confidence |-> answer.confidence,
         reason |-> answer.reason,
         correlation_id |-> 0,
         decision_timestamp |-> now * 1000]

\* DecisionAgent.make_decision: the RiskDecision it returns.
make_decision(signal, outcome) ==
    LET answer == query_ai(signal, outcome)
    IN  [actor_id |-> signal.actor_id,
         decision |-> answer.decision,
         confidence |-> answer.confidence,
         reason |-> answer.reason,
         correlation_id |-> signal.correlation_id,
         decision_timestamp |-> now * 1000]

\* The signals make_decision is given.
StageSignals ==
    { MakeSignal(a, c, p) : a \in {"u1", "u2"}, c \in {1, 2}, p \in EnginePatterns }

\* What the AI backend does in a make_decision call.
StageOutcomes ==
    { Answer(r) : r \in ResponseTexts } \cup { Raise("429 quota exceeded"), Raise("timeout") }

\* One call of DecisionAgent.make_decision.
MakeDecisionCall ==
    /\ u_args.fn = "make_decision"
    /\ u_result = <<>>
    /\ u_result' = <<make_decision(u_args.signal, u_args.outcome)>>
    /\ UNCHANGED <<u_args, unitFrame>>

\* The calls of the two stage agents.
StageCalls ==
    { [fn |-> "process_event", event |-> e, use_real_frequency |-> b] :
        e \in StageEvents, b \in BOOLEAN }
    \cup { [fn |-> "make_decision", signal |-> s, outcome |-> o] :
             s \in StageSignals, o \in StageOutcomes }

\* The signals whose fingerprints are compared: scores on both sides of a
\* bucket border, a factor list in two orders, every event of one actor.
FingerprintSignals ==
    { [actor_id |-> e.actor_id, correlation_id |-> 1, risk_score |-> x, risk_factors |-> f,
       original_event |-> e, processing_timestamp |-> 0] :
        x \in {240, 250, 300, 340},
        f \in {<<>>, <<"sensitive_resource_high", "geographic_anomaly">>},
        e \in {ev \in StageEvents : /\ ev.actor_id = "u1"
                                     /\ ev.timestamp = 1000
                                     /\ ev.frequency_last_60s = 0} }

\* The last element first.
RECURSIVE Reversed(_)
Reversed(q) == IF q = <<>> THEN <<>> ELSE Append(Reversed(Tail(q)), Head(q))

\* Another signal next to `s`: the same one, one from another actor,
\* session, delivery or time, one with another frequency field, one with
\* the factors in another order, and one for each fingerprint input changed.
Variants(s) ==
    LET e == s.original_event
    IN  { s,
          [s EXCEPT !.actor_id = "u2", !.original_event = [e EXCEPT !.actor_id = "u2"]],
          [s EXCEPT !.original_event = [e EXCEPT !.session_id = "s2"]],
          [s EXCEPT !.correlation_id = 2],
          [s EXCEPT !.processing_timestamp = 5000,
                    !.original_event = [e EXCEPT !.timestamp = 62000]],
          [s EXCEPT !.original_event = [e EXCEPT !.frequency_last_60s = 21]],
          [s EXCEPT !.actor_id = "u2", !.correlation_id = 2, !.processing_timestamp = 5000,
                    !.original_event = [e EXCEPT !.actor_id = "u2", !.session_id = "s2",
                                                 !.timestamp = 62000,
                                                 !.frequency_last_60s = 21]],
          [s EXCEPT !.risk_factors = Reversed(@)],
          [s EXCEPT !.risk_factors = <<"geographic_anomaly">>],
          [s EXCEPT !.original_event = [e EXCEPT !.action = "bulk_export"]],
          [s EXCEPT !.original_event = [e EXCEPT !.role = "support"]],
          [s EXCEPT !.original_event = [e EXCEPT !.geo_change = ~@]],
          [s EXCEPT !.original_event = [e EXCEPT !.resource_sensitivity = "medium"]] }
        \cup { [s EXCEPT !.risk_score = x] : x \in {240, 250, 300, 340} }

\* compute_pattern_hash called on two signals.
FingerprintCalls ==
    UNION { { [fn |-> "compute_pattern_hash", first |-> s, second |-> v] : v \in Variants(s) } :
              s \in FingerprintSignals }

ComputePatternHashCall ==
    /\ u_args.fn = "compute_pattern_hash"
    /\ u_result = <<>>
    /\ u_result' = <<compute_pattern_hash(u_args.first), compute_pattern_hash(u_args.second)>>
    /\ UNCHANGED <<u_args, unitFrame>>

NextFingerprint == ComputePatternHashCall

\* The calls of DecisionAgent._fallback_decision: any score in [0, 1], in
\* thousandths, with the text of the error that made the AI unavailable.
FallbackCalls ==
    { [fn |-> "_fallback_decision", signal |-> ScoredSignal(x), error |-> e] :
         x \in 0..1000, e \in {"test", "timeout"} }

\* One call of DecisionAgent._fallback_decision.
FallbackDecisionCall ==
    /\ u_args.fn = "_fallback_decision"
    /\ u_result = <<>>
    /\ u_result' = <<fallback_decision(u_args.signal, u_args.error)>>
    /\ UNCHANGED <<u_args, unitFrame>>

NextFallback == FallbackDecisionCall

(***************************************************************************)
(* ConfigManager (config/settings.py).  Python values: None is <<>>, a     *)
(* string is <<"str", text>>, a number is <<"int", digits>>.               *)
(***************************************************************************)
None == <<>>

Str(text) == <<"str", text>>

\* What Python's `not value` and `a or b` count as empty.
Truthy(v) == v \notin {None, Str(""), <<"int", "0">>}

\* One call of _get_config_value in load_config: the environment variable,
\* the section and field of the YAML document ("" when None is passed in
\* place of a YAML value), the default of the .get() and the required flag.
ConfigKey(env_var, section, field, default, required) ==
    [env_var |-> env_var, section |-> section, field |-> field,
     default |-> default, required |-> required]

\* The calls of load_config, in the order it makes them (lines 130-240).
ConfigKeys ==
    << ConfigKey("KAFKA_BOOTSTRAP_SERVERS", "kafka", "bootstrap_servers", None, TRUE),
       ConfigKey("KAFKA_SECURITY_PROTOCOL", "kafka", "security_protocol", Str("SASL_SSL"), TRUE),
       ConfigKey("KAFKA_SASL_MECHANISM", "kafka", "sasl_mechanism", Str("PLAIN"), TRUE),
       ConfigKey("KAFKA_SASL_USERNAME", "kafka", "sasl_username", None, TRUE),
       ConfigKey("KAFKA_SASL_PASSWORD", "kafka", "sasl_password", None, TRUE),
       ConfigKey("KAFKA_ENTERPRISE_EVENTS_TOPIC", "kafka", "enterprise_action_events_topic",
                 Str("enterprise-action-events"), TRUE),
       ConfigKey("KAFKA_RISK_SIGNALS_TOPIC", "kafka", "risk_signals_topic",
                 Str("risk-signals"), TRUE),
       ConfigKey("KAFKA_RISK_DECISIONS_TOPIC", "kafka", "risk_decisions_topic",
                 Str("risk-decisions"), TRUE),
       ConfigKey("KAFKA_CONSUMER_GROUP_ID", "kafka", "consumer_group_id",
                 Str("ai-risk-gatekeeper"), TRUE),
       ConfigKey("VERTEX_AI_PROJECT_ID", "vertex_ai", "project_id", None, TRUE),
       ConfigKey("VERTEX_AI_LOCATION", "vertex_ai", "location", Str("us-central1"), TRUE),
       ConfigKey("VERTEX_AI_MODEL_NAME", "vertex_ai", "model_name", Str("gemini-1.5-flash"), TRUE),
       ConfigKey("GOOGLE_APPLICATION_CREDENTIALS", "vertex_ai", "credentials_path", None, FALSE),
       ConfigKey("SCHEMA_REGISTRY_URL", "", "", None, FALSE),
       ConfigKey("SCHEMA_REGISTRY_API_KEY", "", "", None, FALSE),
       ConfigKey("SCHEMA_REGISTRY_API_SECRET", "", "", None, FALSE),
       ConfigKey("KSQLDB_ENDPOINT", "", "", None, FALSE),
       ConfigKey("KSQLDB_API_KEY", "", "", None, FALSE),
       ConfigKey("KSQLDB_API_SECRET", "", "", None, FALSE),
       ConfigKey("CONFLUENT_CLOUD_API_KEY", "", "", None, FALSE),
       ConfigKey("CONFLUENT_CLOUD_API_SECRET", "", "", None, FALSE),
       ConfigKey("CONFLUENT_CLUSTER_ID", "", "", None, FALSE),
       ConfigKey("CONFLUENT_ENVIRONMENT_ID", "", "", None, FALSE),
       ConfigKey("LOG_LEVEL", "system", "log_level", Str("INFO"), FALSE) >>

EnvVars == {ConfigKeys[i].env_var : i \in DOMAIN ConfigKeys}

KeyOf(env_var) == CHOOSE k \in {ConfigKeys[i] : i \in DOMAIN ConfigKeys} : k.env_var = env_var

\* What the process environment holds for a variable: nothing, the empty
\* string (as the tests set it) or a text.
EnvValues == {None, Str(""), Str("env-value")}

\* What a YAML mapping holds under a field: nothing (<<"absent">>), or a
\* null, an empty string, a text or a zero.
YamlFields ==
    {<<"absent">>} \cup { <<"value", v>> : v \in {None, Str(""), Str("yaml-value"), <<"int", "0">>} }

\* The calls of load_config.  One variable is followed: `env` is its value
\* in the environment, `section` says whether the YAML document has the
\* section of its field, has it with nothing under it (null) or has a
\* mapping there, and `field` is what the mapping holds.  `exists` tells
\* whether the file is there at all; `others` whether every other variable
\* is set in the environment.  The document has no other section or field.
ConfigCalls ==
    { [fn |-> "load_config", key |-> k, env |-> e, exists |-> x, section |-> sec,
       field |-> f, others |-> o] :
         k \in EnvVars, e \in EnvValues, x \in BOOLEAN,
         sec \in {"absent", "null", "mapping"}, f \in YamlFields, o \in {"set", "unset"} }

\* The calls that differ in what the program can see: a field needs a
\* mapping, a section needs a file and a variable that has a YAML field.
ConfigCallsSeen ==
    { c \in ConfigCalls :
         /\ (c.section # "mapping" => c.field = <<"absent">>)
         /\ ((~c.exists \/ KeyOf(c.key).section = "") => c.section = "absent") }

\* os.getenv(env_var) (line 259)
getenv(call, env_var) ==
    IF env_var = call.key THEN call.env
    ELSE IF call.others = "set" THEN Str("env-value") ELSE None

\* yaml_config.get(section, {}).get(field, default) for key k (lines 132-238);
\* yaml_config is {} without a file (lines 122-125).  A section with nothing
\* under it is None, and None has no get().
yaml_lookup(call, k) ==
    LET shape == IF call.exists /\ k.section = KeyOf(call.key).section
                 THEN call.section ELSE "absent"
    IN  IF k.section = "" THEN [raised |-> "", value |-> None]
        ELSE IF shape = "null" THEN [raised |-> "AttributeError", value |-> None]
        ELSE IF shape = "mapping" /\ k.env_var = call.key /\ call.field # <<"absent">>
        THEN [raised |-> "", value |-> call.field[2]]
        ELSE [raised |-> "", value |-> k.default]

\* ConfigManager._get_config_value (lines 244-264)
get_config_value(env_value, yaml_value, required) ==
    LET value == IF Truthy(env_value) THEN env_value ELSE yaml_value
    IN  IF required /\ ~Truthy(value)
        THEN [raised |-> "ValueError", value |-> None]
        ELSE [raised |-> "", value |-> value]

RECURSIVE load_config_from(_, _, _)
\* load_config from its i-th call on, with the values read so far.
load_config_from(call, i, values) ==
    IF i > Len(ConfigKeys)
    THEN [raised |-> "", key |-> "", values |-> values]
    ELSE LET k == ConfigKeys[i]
             y == yaml_lookup(call, k)
             v == get_config_value(getenv(call, k.env_var), y.value, k.required)
         IN  IF y.raised # ""
             THEN [raised |-> y.raised, key |-> "", values |-> <<>>]
             ELSE IF v.raised # ""
             THEN [raised |-> v.raised, key |-> k.env_var, values |-> <<>>]
             ELSE load_config_from(call, i + 1, Append(values, v.value))

\* ConfigManager.load_config on a manager that has no configuration yet
\* (lines 110-240): the values in the order of ConfigKeys, or the exception
\* and, for a ValueError, the variable its message names.
load_config(call) == load_config_from(call, 1, <<>>)

\* One call of ConfigManager.load_config.
LoadConfigCall ==
    /\ u_args.fn = "load_config"
    /\ u_result = <<>>
    /\ u_result' = <<load_config(u_args)>>
    /\ UNCHANGED <<u_args, unitFrame>>

NextConfig == LoadConfigCall

\* The calls that turn an AI response into a decision: _validate_decision
\* itself, the engine's _parse_ai_response, and make_decision of the agent.
ValidationCalls ==
    { [fn |-> "validate_decision", decision |-> d, confidence |-> c] :
        d \in {"allow", "throttle", "block", "escalate", "invalid"},
        c \in { Confidence("number", 95), Confidence("number", 150), Confidence("number", -50),
                Confidence("numstr", 90), Confidence("text", 0), Confidence("null", 0) } }
    \cup { [fn |-> "parse_ai_response", response |-> r, signal |-> ScoredSignal(x)] :
             r \in ResponseTexts, x \in ParseScores }
    \cup { [fn |-> "make_decision", signal |-> ScoredSignal(x), outcome |-> o] :
             x \in ParseScores, o \in StageOutcomes }

\* One call of DecisionAgent._validate_decision: float() raises on a
\* confidence that is no number (line 174), else the pair is returned.
ValidateDecisionCall ==
    /\ u_args.fn = "validate_decision"
    /\ u_result = <<>>
    /\ u_result' = IF FloatOf(u_args.confidence).ok
                   THEN <<validate_decision(u_args.decision, u_args.confidence)>>
                   ELSE <<[raised |-> "could not convert to float"]>>
    /\ UNCHANGED <<u_args, unitFrame>>

\* One call of HybridDecisionEngine._parse_ai_response.
ParseAIResponseCall ==
    /\ u_args.fn = "parse_ai_response"
    /\ u_result = <<>>
    /\ u_result' = <<parse_ai_response(u_args.response, u_args.signal)>>
    /\ UNCHANGED <<u_args, unitFrame>>

NextValidation ==
    \/ ValidateDecisionCall
    \/ ParseAIResponseCall
    \/ MakeDecisionCall

\* The readings FrequencyTracker.record_event may hand to the scoring
\* methods: none, the first event of an actor, and a burst.
Readings == {<<>>, <<1>>, <<21>>}

\* The direct calls of the scoring methods, and process_event.
ScoreCalls ==
    { [fn |-> f, event |-> e, real_frequency |-> r] :
        f \in {"calculate_risk_score", "identify_risk_factors"}, e \in StageEvents,
        r \in Readings }
    \cup { [fn |-> "process_event", event |-> e, use_real_frequency |-> b] :
             e \in StageEvents, b \in BOOLEAN }

\* One call of SignalProcessor.calculate_risk_score.
CalculateRiskScoreCall ==
    /\ u_args.fn = "calculate_risk_score"
    /\ u_result = <<>>
    /\ u_result' = <<calculate_risk_score(u_args.event, u_args.real_frequency)>>
    /\ UNCHANGED <<u_args, unitFrame>>

\* One call of SignalProcessor.identify_risk_factors.
IdentifyRiskFactorsCall ==
    /\ u_args.fn = "identify_risk_factors"
    /\ u_result = <<>>
    /\ u_result' = <<identify_risk_factors(u_args.event, u_args.real_frequency)>>
    /\ UNCHANGED <<u_args, unitFrame>>

NextScore ==
    \/ CalculateRiskScoreCall
    \/ IdentifyRiskFactorsCall
    \/ ProcessEventCall
    \/ ProcessEventResume

(***************************************************************************)
(* RateLimiter (action_agent.py).                                          *)
(***************************************************************************)
LimitedActors == {"u1", "u2"}

\* RateLimiter() as ActionAgent.__init__ builds it: no actor has a list.
InitLimiter ==
    /\ r_requests = [a \in {} |-> <<>>]
    /\ r_now = 0
    /\ r_hist = <<>>
    /\ r_pc = [w \in {"w1", "w2"} |-> "idle"]
    /\ r_local = [w \in {"w1", "w2"} |-> [actor |-> "", now |-> 0, kept |-> <<>>]]

\* `self._requests[actor_id]` on the defaultdict(list).
RequestsOf(requests, actor) ==
    IF actor \in DOMAIN requests THEN requests[actor] ELSE <<>>

\* `[t for t in self._requests[actor_id] if t > cutoff]` (lines 36-38)
RECURSIVE NewerThan(_, _)
NewerThan(times, cutoff) ==
    IF times = <<>> THEN <<>>
    ELSE IF Head(times) > cutoff
         THEN <<Head(times)>> \o NewerThan(Tail(times), cutoff)
         ELSE NewerThan(Tail(times), cutoff)

\* A limit that is reached only beyond max_requests.
AtCapacity_Strict(n) == n > max_requests

\* The test of line 40.
AtCapacity(n) == n >= max_requests

\* RateLimiter.is_allowed(actor_id) called at time r_now.
is_allowed(actor) ==
    /\ Len(r_hist) < MaxLimiterCalls
    /\ LET cutoff == r_now - window_seconds
           kept == NewerThan(RequestsOf(r_requests, actor), cutoff)
           allowed == ~AtCapacity(Len(kept))
           list == IF allowed THEN Append(kept, r_now) ELSE kept
       IN  /\ r_requests' = [a \in DOMAIN r_requests \cup {actor} |->
                               IF a = actor THEN list ELSE r_requests[a]]
           /\ r_hist' = Append(r_hist, [actor |-> actor, at |-> r_now, allowed |-> allowed])
    /\ UNCHANGED <<r_now, r_pc, r_local>>

\* time.time() moves on.
LimiterTick ==
    /\ r_now < MaxLimiterTime
    /\ r_now' = r_now + 1
    /\ UNCHANGED <<r_requests, r_hist, r_pc, r_local>>

limiterFrame == <<cacheVars, queueVars, engineVars, exercised, unitVars, trackerVars, restVars>>

NextLimiter ==
    \/ \E a \in LimitedActors : is_allowed(a) /\ UNCHANGED limiterFrame
    \/ LimiterTick /\ UNCHANGED limiterFrame

(***************************************************************************)
(* is_allowed called from several threads.  RateLimiter has no lock; the   *)
(* interpreter may switch threads between any two statements, so a call is *)
(* the sequence of its reads and writes of self._requests.                 *)
(***************************************************************************)
\* The threads inside is_allowed.
InLimiter == {w \in Workers : r_pc[w] # "idle"}

\* Lines 32-33: the call starts and reads the clock.
LimiterEnter(w, actor) ==
    /\ r_pc[w] = "idle"
    /\ Len(r_hist) + Cardinality(InLimiter) < MaxThreadCalls
    /\ r_pc' = [r_pc EXCEPT ![w] = "filter"]
    /\ r_local' = [r_local EXCEPT ![w] = [actor |-> actor, now |-> r_now, kept |-> <<>>]]
    /\ UNCHANGED <<r_requests, r_now, r_hist>>

\* The list comprehension of lines 36-38: the actor's list is read (the
\* defaultdict creates it when missing) and its newer entries collected.
LimiterFilter(w) ==
    /\ r_pc[w] = "filter"
    /\ LET actor == r_local[w].actor
       IN  /\ r_local' = [r_local EXCEPT ![w].kept =
                             NewerThan(RequestsOf(r_requests, actor),
                                       r_local[w].now - window_seconds)]
           /\ r_requests' = [a \in DOMAIN r_requests \cup {actor} |->
                                RequestsOf(r_requests, a)]
    /\ r_pc' = [r_pc EXCEPT ![w] = "store"]
    /\ UNCHANGED <<r_now, r_hist>>

\* The assignment of line 36: the collected list replaces the actor's list.
LimiterStore(w) ==
    /\ r_pc[w] = "store"
    /\ r_requests' = [r_requests EXCEPT ![r_local[w].actor] = r_local[w].kept]
    /\ r_pc' = [r_pc EXCEPT ![w] = "check"]
    /\ UNCHANGED <<r_now, r_hist, r_local>>

\* Lines 40-41: the length of the list as it is now; at capacity the call
\* returns False.
LimiterCheck(w) ==
    /\ r_pc[w] = "check"
    /\ IF AtCapacity(Len(r_requests[r_local[w].actor]))
       THEN /\ r_pc' = [r_pc EXCEPT ![w] = "idle"]
            /\ r_hist' = Append(r_hist, [actor |-> r_local[w].actor, at |-> r_local[w].now,
                                         allowed |-> FALSE])
       ELSE /\ r_pc' = [r_pc EXCEPT ![w] = "append"]
            /\ r_hist' = r_hist
    /\ UNCHANGED <<r_requests, r_now, r_local>>

\* Lines 43-44: the timestamp is appended to the list as it is now and the
\* call returns True.
LimiterAppend(w) ==
    /\ r_pc[w] = "append"
    /\ r_requests' = [r_requests EXCEPT ![r_local[w].actor] = Append(@, r_local[w].now)]
    /\ r_hist' = Append(r_hist, [actor |-> r_local[w].actor, at |-> r_local[w].now,
                                 allowed |-> TRUE])
    /\ r_pc' = [r_pc EXCEPT ![w] = "idle"]
    /\ UNCHANGED <<r_now, r_local>>

NextLimiterThreads ==
    \/ \E w \in Workers, a \in LimitedActors : LimiterEnter(w, a) /\ UNCHANGED limiterFrame
    \/ \E w \in Workers : LimiterFilter(w) /\ UNCHANGED limiterFrame
    \/ \E w \in Workers : LimiterStore(w) /\ UNCHANGED limiterFrame
    \/ \E w \in Workers : LimiterCheck(w) /\ UNCHANGED limiterFrame
    \/ \E w \in Workers : LimiterAppend(w) /\ UNCHANGED limiterFrame
    \/ LimiterTick /\ UNCHANGED limiterFrame

(***************************************************************************)
(* SignalProcessor.run (signal_processor.py): the stage worker loop.  The  *)
(* consumer and the producer are connected; poll() hands over the next     *)
(* message of the input topic, or None when there is none.                 *)
(***************************************************************************)
NoEvent == [actor_id |-> "", action |-> "", role |-> "", frequency_last_60s |-> 0,
            geo_change |-> FALSE, timestamp |-> 0, session_id |-> "",
            resource_sensitivity |-> ""]

\* The events on the input topic of the model.
LoopEvents ==
    { e \in StageEvents : /\ e.role = "analyst"
                          /\ e.geo_change
                          /\ e.timestamp = 1000
                          /\ e.resource_sensitivity = "critical"
                          /\ e.frequency_last_60s \in {0, 21} }

\* What poll() may hand over: an event; a message that decodes into an
\* event whose frequency_last_60s is a text (from_json does not look at the
\* types); bytes that from_json cannot decode; a consumer error.
Messages ==
    { [kind |-> k, event |-> e] : k \in {"event"}, e \in LoopEvents }
    \cup { [kind |-> k, event |-> e] : k \in {"illtyped"},
                                       e \in {x \in LoopEvents : x.frequency_last_60s = 0} }
    \cup { [kind |-> k, event |-> NoEvent] : k \in {"undecodable", "error"} }

\* All sequences over `set` of at most n elements.
RECURSIVE SeqsUpTo(_, _)
SeqsUpTo(set, n) ==
    IF n = 0 THEN {<<>>}
    ELSE LET shorter == SeqsUpTo(set, n - 1)
         IN  shorter \cup {Append(q, x) : q \in shorter, x \in set}

\* SignalProcessor.__init__ (lines 76-85) with the given use_real_frequency,
\* before run(max_events) is called on the given topic content.
InitLoopWith(inputs, reals, maxes) ==
    /\ w_pc = "idle"
    /\ w_running = FALSE
    /\ w_use_real \in reals
    /\ w_max_events \in maxes
    /\ w_events_count = 0
    /\ w_input \in inputs
    /\ w_output = <<>>
    /\ w_stats = [events_processed |-> 0, events_failed |-> 0]
    /\ w_event = NoEvent
    /\ w_consumed = <<>>
    /\ w_stopped = FALSE
    /\ w_polls = 0
    /\ w_polls_after_stop = 0

InitLoop == InitLoopWith({<<>>}, {FALSE}, {<<>>})

\* `self._running = True` (line 329).
RunFlag(running, stopped) == TRUE

\* run() is entered: lines 326-330.
RunEnter ==
    /\ w_pc = "idle"
    /\ w_pc' = "loop"
    /\ w_running' = RunFlag(w_running, w_stopped)
    /\ w_events_count' = 0
    /\ UNCHANGED <<w_use_real, w_max_events, w_input, w_output, w_stats, w_event,
                   w_consumed, w_stopped, w_polls, w_polls_after_stop>>

\* `max_events and events_count >= max_events` (line 336).
MaxReached == w_max_events # <<>> /\ w_max_events[1] # 0 /\ w_events_count >= w_max_events[1]

\* The loop test of lines 335-337; on leaving the loop the finally block
\* clears _running and run() returns (lines 360-363).
LoopTest ==
    /\ w_pc = "loop"
    /\ IF w_running /\ ~MaxReached
       THEN w_pc' = "poll" /\ w_running' = w_running
       ELSE w_pc' = "done" /\ w_running' = FALSE
    /\ UNCHANGED <<w_use_real, w_max_events, w_events_count, w_input, w_output, w_stats,
                   w_event, w_consumed, w_stopped, w_polls, w_polls_after_stop>>

\* publish_signal: produce(key=signal.actor_id, value=signal.to_json()).
Published(output, signal) == Append(output, [key |-> signal.actor_id, value |-> signal])

\* A loop that a failure ends.
AfterFailure_Leaves == "done"

\* Where the loop stands after the except branch of lines 354-356.
AfterFailure == "loop"

\* `self._events_failed += 1` (line 355).
Failed(stats) == [stats EXCEPT !.events_failed = @ + 1]

\* `self._events_processed += 1` (line 352) after process_and_publish returned.
Processed(stats) == [stats EXCEPT !.events_processed = @ + 1]

\* One poll and what the loop body does with its result (lines 339-356).
\* No message and a consumer error: next iteration.  A message that cannot
\* be decoded: the except branch.  An event: process_and_publish; with the
\* tracker, process_event first calls record_event, and the thread waits for
\* the tracker's lock.  An event whose frequency is a text decodes, and the
\* comparison in calculate_risk_score raises (after record_event, when the
\* tracker is used).
Poll ==
    /\ w_pc = "poll"
    /\ w_polls < MaxPolls
    /\ w_polls' = w_polls + 1
    /\ w_polls_after_stop' = IF w_stopped THEN w_polls_after_stop + 1 ELSE w_polls_after_stop
    /\ IF w_input = <<>>
       THEN /\ w_pc' = "loop"
            /\ UNCHANGED <<w_input, w_consumed, w_output, w_stats, w_event, w_events_count,
                           trackerVars>>
       ELSE LET msg == Head(w_input)
            IN  /\ w_input' = Tail(w_input)
                /\ w_consumed' = Append(w_consumed, msg)
                /\ IF msg.kind = "error"
                   THEN /\ w_pc' = "loop"
                        /\ UNCHANGED <<w_output, w_stats, w_event, w_events_count, trackerVars>>
                   ELSE IF msg.kind = "undecodable"
                   THEN /\ w_pc' = AfterFailure
                        /\ w_stats' = Failed(w_stats)
                        /\ UNCHANGED <<w_output, w_event, w_events_count, trackerVars>>
                   ELSE IF w_use_real
                   THEN /\ w_pc' = "process"
                        /\ w_event' = msg.event
                        /\ TrackerCall(ProcessorThread, "record_event", msg.event.actor_id,
                                       msg.event.timestamp \div 1000)
                        /\ UNCHANGED <<w_output, w_stats, w_events_count>>
                   ELSE IF msg.kind = "illtyped"
                   THEN /\ w_pc' = AfterFailure
                        /\ w_stats' = Failed(w_stats)
                        /\ UNCHANGED <<w_output, w_event, w_events_count, trackerVars>>
                   ELSE /\ w_pc' = "loop"
                        /\ \E uuid \in Uuids :
                              w_output' = Published(w_output, RiskSignal(msg.event, <<>>, uuid))
                        /\ w_stats' = Processed(w_stats)
                        /\ w_events_count' = w_events_count + 1
                        /\ UNCHANGED <<w_event, trackerVars>>
    /\ UNCHANGED <<w_running, w_use_real, w_max_events, w_stopped>>

\* The thread inside record_event gets the tracker's lock and runs on; once
\* record_event has returned, the signal is built and published.
ProcessResume ==
    /\ w_pc = "process"
    /\ LockAcquired(ProcessorThread)
    /\ IF f_pc'[ProcessorThread] = "idle"
       THEN /\ w_pc' = "loop"
            /\ \E uuid \in Uuids :
                  w_output' = Published(w_output,
                                        RiskSignal(w_event, f_ret'[ProcessorThread], uuid))
            /\ w_stats' = Processed(w_stats)
            /\ w_events_count' = w_events_count + 1
       ELSE UNCHANGED <<w_pc, w_output, w_stats, w_events_count>>
    /\ UNCHANGED <<w_running, w_use_real, w_max_events, w_input, w_event, w_consumed,
                   w_stopped, w_polls, w_polls_after_stop>>

\* SignalProcessor.stop(), called from another thread at any time.
Stop ==
    /\ ~w_stopped
    /\ w_stopped' = TRUE
    /\ w_running' = FALSE
    /\ UNCHANGED <<w_pc, w_use_real, w_max_events, w_events_count, w_input, w_output, w_stats,
                   w_event, w_consumed, w_polls, w_polls_after_stop>>

loopFrame == <<cacheVars, queueVars, engineVars, exercised, unitVars, limiterVars, agentVars, simVars>>

NextLoop ==
    \/ RunEnter /\ UNCHANGED <<loopFrame, trackerVars>>
    \/ LoopTest /\ UNCHANGED <<loopFrame, trackerVars>>
    \/ Poll /\ UNCHANGED loopFrame
    \/ ProcessResume /\ UNCHANGED loopFrame
    \/ Stop /\ UNCHANGED <<loopFrame, trackerVars>>

(***************************************************************************)
(* ActionAgent (action_agent.py).                                          *)
(***************************************************************************)
\* ActionAgent.__init__: the statistics (lines 60-65).
InitAgent ==
    /\ a_stats = [actions_executed |-> 0, blocks |-> 0, throttles |-> 0,
                  allows |-> 0, escalations |-> 0]
    /\ a_calls = 0
    /\ a_last = [decision |-> "", raised |-> FALSE]

\* Everything built after the limiter, as constructed.
(***************************************************************************)
(* The dashboard's simulation loops (web/simulation.py) and the websocket  *)
(* handler that starts and stops them (web/websocket.py).  Everything runs *)
(* on one event loop: a task runs from one await to the next.              *)
(***************************************************************************)
MaxStarts == 3

MaxEvents == 2

\* A task that asyncio.create_task has scheduled (websocket.py lines 48, 58)
\* for run_simulation or run_attack_scenario with `left` events to go.
\* `known` tells whether get_scenario finds the scenario.  History: the events
\* processed, whether a stop request came while the loop ran, and whether a
\* start request came after that.
NewTask(kind, events, known) ==
    [kind |-> kind, pc |-> "created", left |-> events, known |-> known, processed |-> 0,
     stop_seen |-> FALSE, superseded |-> FALSE]

\* AppState.__init__ (state.py line 66); no task exists yet.
InitSim ==
    /\ simulation_running = FALSE
    /\ sim_tasks = <<>>

\* The handler waits for its next message (websocket.py line 42); a task it
\* has scheduled is ahead of it on the event loop and begins first.
HandlerResumes == \A i \in DOMAIN sim_tasks : sim_tasks[i].pc # "created"

\* The websocket handler gets 'start_simulation' or 'run_scenario'
\* (websocket.py lines 47-58): the coroutine is scheduled, not yet run.
StartRequest(kind, events, known) ==
    /\ HandlerResumes
    /\ Len(sim_tasks) < MaxStarts
    /\ sim_tasks' = Append([i \in DOMAIN sim_tasks |->
                              [sim_tasks[i] EXCEPT !.superseded =
                                  @ \/ (sim_tasks[i].pc = "loop" /\ sim_tasks[i].stop_seen)]],
                           NewTask(kind, events, known))
    /\ UNCHANGED simulation_running

\* The websocket handler gets 'stop_simulation' (websocket.py lines 60-61).
StopRequest ==
    /\ HandlerResumes
    /\ simulation_running' = FALSE
    /\ sim_tasks' = [i \in DOMAIN sim_tasks |->
                       [sim_tasks[i] EXCEPT !.stop_seen = @ \/ sim_tasks[i].pc = "loop"]]

\* `if state.simulation_running: return` (simulation.py lines 156-157, 262-263).
StartIgnored(running) == running

\* The scheduled coroutine runs up to its first await (simulation.py lines
\* 156-165 and 262-266): it returns at once when the flag is set or the
\* scenario is unknown, else it sets the flag and announces the start.
TaskBegins(i) ==
    /\ sim_tasks[i].pc = "created"
    /\ IF StartIgnored(simulation_running)
       THEN /\ sim_tasks' = [sim_tasks EXCEPT ![i].pc = "done"]
            /\ UNCHANGED simulation_running
       ELSE IF sim_tasks[i].kind = "scenario" /\ ~sim_tasks[i].known
       THEN /\ sim_tasks' = [sim_tasks EXCEPT ![i].pc = "done"]
            /\ UNCHANGED simulation_running
       ELSE /\ sim_tasks' = [sim_tasks EXCEPT ![i].pc = "loop"]
            /\ simulation_running' = TRUE

\* The loop of task i runs on from the await it was suspended in (the start
\* announcement or the sleep after an event) to the next one.  With no event
\* left or the flag down it leaves the loop, clears the flag and announces
\* the end (lines 179-185, 241-257; 281-283, 329-335).  Otherwise it takes the
\* next event: processed, the task sleeps (lines 187-239, 285-325); when the
\* processing raises, run_simulation reports it and goes on (lines 326-327),
\* run_attack_scenario dies with the flag still set.
TaskIterates(i, ok) ==
    /\ sim_tasks[i].pc = "loop"
    /\ IF sim_tasks[i].left = 0 \/ ~simulation_running
       THEN /\ ok
            /\ sim_tasks' = [sim_tasks EXCEPT ![i].pc = "done"]
            /\ simulation_running' = FALSE
       ELSE /\ sim_tasks' =
                 [sim_tasks EXCEPT
                    ![i].left = @ - 1,
                    ![i].processed = IF ok THEN @ + 1 ELSE @,
                    ![i].pc = IF ok \/ sim_tasks[i].kind = "simulation"
                              THEN "loop" ELSE "failed"]
            /\ UNCHANGED simulation_running

simFrame == <<cacheVars, queueVars, engineVars, exercised, unitVars, trackerVars, limiterVars,
              agentVars, loopVars>>

NextSim ==
    \/ \E kind \in {"simulation", "scenario"}, events \in 0..MaxEvents, known \in BOOLEAN :
          /\ (kind = "simulation" => known)
          /\ StartRequest(kind, events, known)
          /\ UNCHANGED simFrame
    \/ StopRequest /\ UNCHANGED simFrame
    \/ \E i \in DOMAIN sim_tasks : TaskBegins(i) /\ UNCHANGED simFrame
    \/ \E i \in DOMAIN sim_tasks, ok \in BOOLEAN : TaskIterates(i, ok) /\ UNCHANGED simFrame

InitRest == InitAgent /\ InitLoop /\ InitSim

\* Whether f"{decision.confidence:.2f}" can be formatted: a number can, a
\* text or None raises.
Formattable(confidence) == confidence.kind = "number"

\* The RiskDecisions execute_action is given: built by make_decision, or
\* decoded by RiskDecision.from_json from a message whose confidence is a
\* number, a text or null.
ActionDecisions ==
    { [actor_id |-> a, decision |-> d, confidence |-> c] :
        a \in LimitedActors,
        d \in {"allow", "throttle", "block", "escalate", "deny"},
        c \in {Confidence("number", 90), Confidence("text", 0), Confidence("null", 0)} }

\* action_handlers.get(decision.decision, self.execute_escalate) (line 157):
\* the counter the handler increments.
HandlerCounter(decision) ==
    IF decision = "block" THEN "blocks"
    ELSE IF decision = "throttle" THEN "throttles"
    ELSE IF decision = "allow" THEN "allows"
    ELSE "escalations"

\* Whether the handler raises after it incremented its counter:
\* execute_block and execute_allow format the confidence in their log line.
HandlerRaises(d) ==
    /\ HandlerCounter(d.decision) \in {"blocks", "allows"}
    /\ ~Formattable(d.confidence)

\* ActionAgent.execute_action(decision): the handler increments its counter,
\* execute_throttle consults the rate limiter, and when the handler has
\* returned _actions_executed is incremented.
execute_action(d) ==
    /\ a_calls < MaxActions
    /\ a_calls' = a_calls + 1
    /\ a_last' = [decision |-> d.decision, raised |-> HandlerRaises(d)]
    /\ LET counted == [a_stats EXCEPT ![HandlerCounter(d.decision)] = @ + 1]
       IN  a_stats' = IF HandlerRaises(d) THEN counted
                      ELSE [counted EXCEPT !.actions_executed = @ + 1]
    /\ IF HandlerCounter(d.decision) = "throttles"
       THEN is_allowed(d.actor_id)
       ELSE UNCHANGED limiterVars

agentFrame == <<cacheVars, queueVars, engineVars, exercised, unitVars, trackerVars, loopVars, simVars>>

NextAgent ==
    \/ \E d \in ActionDecisions : execute_action(d) /\ UNCHANGED agentFrame
    \/ LimiterTick /\ UNCHANGED <<agentFrame, agentVars>>

(***************************************************************************)
(* Specifications.                                                         *)
(***************************************************************************)
NextCache ==
    \/ Tick /\ UNCHANGED <<queueVars, engineVars, exercised, unitVars, otherVars>>
    \/ \E k \in PutKeys : CGet(k) /\ UNCHANGED <<queueVars, engineVars, exercised, unitVars, otherVars>>
    \/ \E k \in PutKeys, r \in PutResults : CPut(k, r) /\ UNCHANGED <<queueVars, engineVars, exercised, unitVars, otherVars>>
    \/ CCleanup /\ UNCHANGED <<queueVars, engineVars, exercised, unitVars, otherVars>>
    \/ CClear /\ UNCHANGED <<queueVars, engineVars, exercised, unitVars, otherVars>>

\* A DecisionCache that can hold something, as the engine builds it
\* (max_size >= 1), used directly.
InitCache ==
    /\ InitCacheWith(1..MaxCacheSize)
    /\ InitQueueWith({MaxQueue})
    /\ InitEngineWith({MaxQueueSize}, {TRUE})
    /\ exercised = "cache"
    /\ NoUnitCall
    /\ InitTracker
    /\ InitLimiter
    /\ InitRest

SpecCache == InitCache /\ [][NextCache]_vars

\* Every max_size the constructor accepts, the boundary size 0 included.
InitCacheAnySize ==
    /\ InitCacheWith(0..MaxCacheSize)
    /\ InitQueueWith({MaxQueue})
    /\ InitEngineWith({MaxQueueSize}, {TRUE})
    /\ exercised = "cache"
    /\ NoUnitCall
    /\ InitTracker
    /\ InitLimiter
    /\ InitRest

SpecCacheAnySize == InitCacheAnySize /\ [][NextCache]_vars

\* An AIRequestQueue under concurrent submit() calls.
InitQueue ==
    /\ InitCacheWith({MaxCacheSize})
    /\ InitQueueWith(0..MaxQueue)
    /\ InitEngineWith({MaxQueueSize}, {TRUE})
    /\ exercised = "queue"
    /\ NoUnitCall
    /\ InitTracker
    /\ InitLimiter
    /\ InitRest

SpecQueue == InitQueue /\ [][NextQueue]_vars

\* A HybridDecisionEngine under concurrent decide() calls.
InitEngine ==
    /\ InitCacheWith({MaxCacheSize})
    /\ InitQueueWith({MaxQueue})
    /\ InitEngineWith({1, MaxQueueSize}, BOOLEAN)
    /\ exercised = "engine"
    /\ NoUnitCall
    /\ InitTracker
    /\ InitLimiter
    /\ InitRest

SpecEngine == InitEngine /\ [][NextEngine]_vars

SpecEngineCancel == InitEngine /\ [][NextEngineCancel]_vars

\* Either component that guards an AI call with a semaphore, under its own
\* concurrent callers: an AIRequestQueue or a HybridDecisionEngine.
InitAIPath ==
    /\ InitCacheWith({MaxCacheSize})
    /\ exercised \in {"queue", "engine"}
    /\ InitQueueWith(IF exercised = "queue" THEN 0..MaxQueue ELSE {MaxQueue})
    /\ InitEngineWith(IF exercised = "engine" THEN {1, MaxQueueSize} ELSE {MaxQueueSize},
                      IF exercised = "engine" THEN BOOLEAN ELSE {TRUE})
    /\ NoUnitCall
    /\ InitTracker
    /\ InitLimiter
    /\ InitRest

NextAIPath ==
    \/ exercised = "queue" /\ NextQueue
    \/ exercised = "engine" /\ NextEngine

SpecAIPath == InitAIPath /\ [][NextAIPath]_vars

\* _parse_ai_response on every response text and score.
InitParse ==
    /\ InitCacheWith({MaxCacheSize})
    /\ InitQueueWith({MaxQueue})
    /\ InitEngineWith({MaxQueueSize}, {TRUE})
    /\ exercised = "function"
    /\ u_args \in {[response |-> r, signal |-> ScoredSignal(x)] :
                     r \in ResponseTexts, x \in ParseScores}
    /\ u_result = <<>>
    /\ InitTracker
    /\ InitLimiter
    /\ InitRest

SpecParse == InitParse /\ [][NextParse]_vars

\* _rule_decision on every score in [0, 1], in thousandths.
InitRule ==
    /\ InitCacheWith({MaxCacheSize})
    /\ InitQueueWith({MaxQueue})
    /\ InitEngineWith({MaxQueueSize}, {TRUE})
    /\ exercised = "function"
    /\ u_args \in RuleCalls
    /\ u_result = <<>>
    /\ InitTracker
    /\ InitLimiter
    /\ InitRest

SpecRule == InitRule /\ [][NextRule]_vars

\* A WindowedCounter called from two stage worker threads.
InitTrackerRun ==
    /\ InitCacheWith({MaxCacheSize})
    /\ InitQueueWith({MaxQueue})
    /\ InitEngineWith({MaxQueueSize}, {TRUE})
    /\ exercised = "tracker"
    /\ NoUnitCall
    /\ InitTracker
    /\ InitLimiter
    /\ InitRest

SpecTracker == InitTrackerRun /\ [][NextTracker]_vars

\* The same with a thread that waits for a free lock getting it.
InitTrace ==
    /\ InitCacheWith({MaxCacheSize})
    /\ InitQueueWith({MaxQueue})
    /\ InitTracker
    /\ InitLimiter
    /\ InitRest
    /\ \/ /\ exercised = "engine"
          /\ InitEngineWith({1, MaxQueueSize}, BOOLEAN)
          /\ NoUnitCall
       \/ /\ exercised = "stages"
          /\ InitEngineWith({MaxQueueSize}, {TRUE})
          /\ u_args \in StageCalls
          /\ u_result = <<>>

\* Runs of the decision engine, and single calls of the two stage agents.
NextTrace ==
    \/ exercised = "engine" /\ NextEngine
    \/ exercised = "stages" /\ ProcessEventCall
    \/ exercised = "stages" /\ ProcessEventResume
    \/ exercised = "stages" /\ MakeDecisionCall

SpecTrace == InitTrace /\ [][NextTrace]_vars

\* A RateLimiter consulted for two actors while time passes.
InitLimiterRun ==
    /\ InitCacheWith({MaxCacheSize})
    /\ InitQueueWith({MaxQueue})
    /\ InitEngineWith({MaxQueueSize}, {TRUE})
    /\ exercised = "limiter"
    /\ NoUnitCall
    /\ InitTracker
    /\ InitLimiter
    /\ InitRest

SpecLimiter == InitLimiterRun /\ [][NextLimiter]_vars

\* The same RateLimiter consulted by two threads at once.
InitLimiterThreads ==
    /\ InitCacheWith({MaxCacheSize})
    /\ InitQueueWith({MaxQueue})
    /\ InitEngineWith({MaxQueueSize}, {TRUE})
    /\ exercised = "limiter threads"
    /\ NoUnitCall
    /\ InitTracker
    /\ InitLimiter
    /\ InitRest

SpecLimiterThreads == InitLimiterThreads /\ [][NextLimiterThreads]_vars

\* An ActionAgent executing decisions while time passes.
InitAgentRun ==
    /\ InitCacheWith({MaxCacheSize})
    /\ InitQueueWith({MaxQueue})
    /\ InitEngineWith({MaxQueueSize}, {TRUE})
    /\ exercised = "agent"
    /\ NoUnitCall
    /\ InitTracker
    /\ InitLimiter
    /\ InitRest

SpecAgent == InitAgentRun /\ [][NextAgent]_vars

\* The cache fingerprint of pairs of signals.
InitFingerprint ==
    /\ InitCacheWith({MaxCacheSize})
    /\ InitQueueWith({MaxQueue})
    /\ InitEngineWith({MaxQueueSize}, {TRUE})
    /\ exercised = "fingerprint"
    /\ u_args \in FingerprintCalls
    /\ u_result = <<>>
    /\ InitTracker
    /\ InitLimiter
    /\ InitRest

SpecFingerprint == InitFingerprint /\ [][NextFingerprint]_vars

\* _fallback_decision on every score in [0, 1], in thousandths.
InitFallback ==
    /\ InitCacheWith({MaxCacheSize})
    /\ InitQueueWith({MaxQueue})
    /\ InitEngineWith({MaxQueueSize}, {TRUE})
    /\ exercised = "fallback"
    /\ u_args \in FallbackCalls
    /\ u_result = <<>>
    /\ InitTracker
    /\ InitLimiter
    /\ InitRest

SpecFallback == InitFallback /\ [][NextFallback]_vars

\* The dashboard: start and stop requests and the tasks they create.
InitSimRun ==
    /\ InitCacheWith({MaxCacheSize})
    /\ InitQueueWith({MaxQueue})
    /\ InitEngineWith({MaxQueueSize}, {TRUE})
    /\ exercised = "simulation"
    /\ NoUnitCall
    /\ InitTracker
    /\ InitLimiter
    /\ InitRest

SpecSim == InitSimRun /\ [][NextSim]_vars

\* load_config under every environment and YAML document of ConfigCallsSeen.
InitConfig ==
    /\ InitCacheWith({MaxCacheSize})
    /\ InitQueueWith({MaxQueue})
    /\ InitEngineWith({MaxQueueSize}, {TRUE})
    /\ exercised = "config"
    /\ u_args \in ConfigCallsSeen
    /\ u_result = <<>>
    /\ InitTracker
    /\ InitLimiter
    /\ InitRest

SpecConfig == InitConfig /\ [][NextConfig]_vars

\* The validation of AI responses in the agent and in the engine.
InitValidation ==
    /\ InitCacheWith({MaxCacheSize})
    /\ InitQueueWith({MaxQueue})
    /\ InitEngineWith({MaxQueueSize}, {TRUE})
    /\ exercised = "validation"
    /\ u_args \in ValidationCalls
    /\ u_result = <<>>
    /\ InitTracker
    /\ InitLimiter
    /\ InitRest

SpecValidation == InitValidation /\ [][NextValidation]_vars

\* The scoring methods of SignalProcessor on every event and reading.
InitScore ==
    /\ InitCacheWith({MaxCacheSize})
    /\ InitQueueWith({MaxQueue})
    /\ InitEngineWith({MaxQueueSize}, {TRUE})
    /\ exercised = "scoring"
    /\ u_args \in ScoreCalls
    /\ u_result = <<>>
    /\ InitTracker
    /\ InitLimiter
    /\ InitRest

SpecScore == InitScore /\ [][NextScore]_vars

\* A SignalProcessor, with and without the tracker, running on every
\* content of its input topic; stop() may be called at any time.
InitLoopRun ==
    /\ InitCacheWith({MaxCacheSize})
    /\ InitQueueWith({MaxQueue})
    /\ InitEngineWith({MaxQueueSize}, {TRUE})
    /\ exercised = "loop"
    /\ NoUnitCall
    /\ InitTracker
    /\ InitLimiter
    /\ InitAgent
    /\ InitLoopWith(SeqsUpTo(Messages, MaxMessages), BOOLEAN, {<<>>, <<1>>})
    /\ InitSim

SpecLoop == InitLoopRun /\ [][NextLoop]_vars

\* The same with a worker thread that keeps running.
SpecLoopFair ==
    /\ InitLoopRun
    /\ [][NextLoop]_vars
    /\ WF_vars(RunEnter /\ UNCHANGED <<loopFrame, trackerVars>>)
    /\ WF_vars(LoopTest /\ UNCHANGED <<loopFrame, trackerVars>>)
    /\ WF_vars(Poll /\ UNCHANGED loopFrame)
    /\ WF_vars(ProcessResume /\ UNCHANGED loopFrame)

SpecTrackerFair ==
    /\ InitTrackerRun
    /\ [][NextTracker]_vars
    /\ \A w \in Workers : SF_vars(LockAcquired(w) /\ UNCHANGED trackerFrame)

(***************************************************************************)
(* Claims about DecisionCache.                                             *)
(***************************************************************************)
KeyOrder(c) == [i \in 1..Len(c) |-> c[i].key]

\* A step of the cache specification that is a call of operation `op`.
IsCall(op) == c_ops' = c_ops + 1 /\ c_last'.op = op

\* C5: after any sequence of put, get, cleanup_expired and clear the number of
\* stored entries never exceeds max_size, for every max_size including 0 and
\* 1, and put never fails.
C5_SizeBoundedAndPutNeverFails ==
    /\ Len(cache) <= max_size
    /\ ~(c_last.op = "put" /\ c_last.raised)

\* C6: get never returns a result that was put more than ttl_seconds ago,
\* however many hits the entry received in between; a lookup that finds an
\* expired entry deletes it, counts a miss and returns None.
C6_GetNeverReturnsExpired ==
    [][IsCall("get") =>
        LET k == c_last'.key IN
        /\ c_last'.hit =>
              /\ c_putAt[k] >= 0
              /\ now - c_putAt[k] <= CacheTtl
              /\ c_last'.ret # <<>>
        /\ (k \in CacheKeys(cache) /\ now - c_putAt[k] > CacheTtl) =>
              /\ c_last'.ret = <<>>
              /\ k \notin CacheKeys(cache')
              /\ Len(cache') = Len(cache) - 1
              /\ misses' = misses + 1
              /\ hits' = hits
    ]_vars

\* C6 witness: an entry that was hit earlier has expired, and the lookup that
\* found it deleted it and reported a miss.
C6_Witness ==
    /\ c_last.op = "get" /\ c_last.expired /\ c_last.ret = <<>>
    /\ hits >= 1
    /\ c_last.key \notin CacheKeys(cache)
    /\ now - c_putAt[c_last.key] > CacheTtl

\* C7: every get hit and every put makes the key most-recently-used and
\* leaves the order of the other keys alone; a put of a new key into a full
\* cache evicts exactly the least-recently-used key; a put on an existing
\* key replaces its value without changing the size.
C7_LruOrder ==
    [][/\ (IsCall("get") /\ c_last'.hit) =>
            LET k == c_last'.key IN
            /\ KeyOrder(cache') = SeqWithout(KeyOrder(cache), k) \o <<k>>
       /\ IsCall("put") =>
            LET k == c_last'.key
                old == KeyOrder(cache)
            IN  /\ ~c_last'.raised
                /\ cache'[Len(cache')].key = k
                /\ cache'[Len(cache')].result = c_last'.ret[1]
                /\ IF k \in CacheKeys(cache)
                   THEN /\ Len(cache') = Len(cache)
                        /\ KeyOrder(cache') = SeqWithout(old, k) \o <<k>>
                   ELSE IF Len(cache) >= max_size
                   THEN /\ KeyOrder(cache') = Tail(old) \o <<k>>
                        /\ c_last'.evicted = <<Head(old)>>
                   ELSE /\ KeyOrder(cache') = old \o <<k>>
                        /\ c_last'.evicted = <<>>
    ]_vars

\* C7 witness: a put of a new key into a full cache of two entries, whose
\* least-recently-used key had been promoted by a hit on the other one.
C7_Witness ==
    /\ c_last.op = "put" /\ ~c_last.raised
    /\ Len(c_last.evicted) = 1
    /\ Len(cache) = 2 /\ max_size = 2
    /\ hits >= 1
    /\ cache[2].key = c_last.key
    /\ c_putAt[c_last.evicted[1]] > c_putAt[cache[1].key]

(***************************************************************************)
(* Claims about AIRequestQueue.                                            *)
(***************************************************************************)
\* The submit() calls that are in flight or waiting.
Outstanding == {p \in Submitters : q_pc[p] \in {"sleep", "wait", "ai"}}

\* The submit() calls whose ai_func is executing.
InAICall == {p \in Submitters : q_pc[p] = "ai"}

\* C2: the number of submits in flight or waiting (in the backoff sleep or on
\* the semaphore) never exceeds max_queue; a submit attempted at max_queue
\* gets the fallback and counts as overflowed.
C2_QueueDepthBounded == Cardinality(Outstanding) <= q_max_queue

C4_CancelReturnsFallback ==
    \A p \in Submitters :
        (q_pc[p] = "done" /\ q_cancelled[p]) => q_out[p] = "fallback"

(***************************************************************************)
(* Claims about HybridDecisionEngine.                                      *)
(***************************************************************************)
\* The decide() calls whose _query_ai is executing.
InQueryAI == {t \in Tasks : e_pc[t] = "ai"}

\* C1: in every interleaving of concurrent submit calls, and of concurrent
\* decide calls that reach the AI path, the number of ai_func / _query_ai
\* invocations executing at the same time never exceeds max_concurrent.
C1_ConcurrencyBounded ==
    /\ Cardinality(InAICall) <= MaxConcurrent
    /\ Cardinality(InQueryAI) <= MaxConcurrentAI

\* C1 witness: max_concurrent submits are inside ai_func and a further one
\* is held back on the semaphore.
C1_Witness ==
    /\ exercised = "queue"
    /\ Cardinality(InAICall) = MaxConcurrent
    /\ \E p \in Submitters : q_pc[p] = "wait"

\* A decide() call returns in this step.
Returns == e_last' # e_last

\* A decide() call starts in this step.
Starts == e_calls' = e_calls + 1

\* The signal of the call that starts in this step: the call has returned
\* already or is suspended in _ai_decision.
StartedSignal ==
    IF e_last'.signal.correlation_id = e_calls'
    THEN e_last'.signal
    ELSE CHOOSE s \in {e_sig'[t] : t \in Tasks} : s.correlation_id = e_calls'

\* The cache holds an unexpired entry for the fingerprint of `signal`.
Fresh(signal) ==
    /\ compute_pattern_hash(signal) \in CacheKeys(cache)
    /\ ~Expired(CacheEntry(cache, compute_pattern_hash(signal)), now, CacheTtl)

\* The score of `signal` lies in the ambiguous band.
InBand(signal) ==
    signal.risk_score >= low_threshold /\ signal.risk_score <= high_threshold

\* C8: a decide() that hits the entry stored for fingerprint f returns the
\* stored result's decision, confidence and reason, with source "cache" and
\* with the correlation_id and actor_id of the signal being decided; the
\* stored entry is not modified by the hit.
C8_HitReturnsStoredDecision ==
    [][ (Returns /\ e_last'.path = "cache") =>
          LET signal == e_last'.signal
              k == compute_pattern_hash(signal)
              ret == e_last'.ret[1]
          IN  /\ k \in CacheKeys(cache)
              /\ ret.decision = CacheEntry(cache, k).result.decision
              /\ ret.confidence = CacheEntry(cache, k).result.confidence
              /\ ret.reason = CacheEntry(cache, k).result.reason
              /\ ret.source = "cache"
              /\ ret.correlation_id = signal.correlation_id
              /\ ret.actor_id = signal.actor_id
              /\ k \in CacheKeys(cache')
              /\ CacheEntry(cache', k) = CacheEntry(cache, k) ]_vars

\* C8 witness: a decide() was served from the cache an entry that another
\* actor's signal had produced, under another correlation id.
C8_Witness ==
    /\ e_last.path = "cache"
    /\ compute_pattern_hash(e_last.signal) \in CacheKeys(cache)
    /\ LET r == CacheEntry(cache, compute_pattern_hash(e_last.signal)).result
       IN  /\ r.actor_id # e_last.signal.actor_id
           /\ r.correlation_id # e_last.signal.correlation_id
           /\ r.source = "ai"
           /\ e_last.ret[1].decision = r.decision

\* C9: in HYBRID mode a decide() for an ambiguous-band signal whose
\* fingerprint is not cached goes to the AI (given room in the queue and a
\* client); when the AI call succeeds the call returns source "ai" and the
\* result is in the cache; a decide() for a signal with the same fingerprint
\* within TTL, from any actor, returns source "cache" and makes no AI call.
C9_MissAsksAIThenHits ==
    [][ /\ ( /\ Starts
             /\ e_mode = "hybrid"
             /\ InBand(StartedSignal)
             /\ ~Fresh(StartedSignal)
             /\ e_queue_size < e_max_queue
             /\ init_ai_client )
          => \E t \in Tasks :
                /\ e_pc[t] = "idle"
                /\ e_pc'[t] \in {"ai", "wait"}
                /\ e_sig'[t] = StartedSignal
        /\ (Returns /\ e_last'.path = "ai")
          => LET k == compute_pattern_hash(e_last'.signal)
             IN  /\ e_last'.ret[1].source = "ai"
                 /\ k \in CacheKeys(cache')
                 /\ CacheEntry(cache', k).result = e_last'.ret[1]
                 /\ CacheEntry(cache', k).timestamp = now
        /\ ( /\ Starts
             /\ e_mode = "hybrid"
             /\ InBand(StartedSignal)
             /\ Fresh(StartedSignal)
             /\ CacheEntry(cache, compute_pattern_hash(StartedSignal)).result.source = "ai" )
          => /\ Returns
             /\ e_last'.signal = StartedSignal
             /\ e_last'.ret[1].source = "cache"
             /\ e_pc' = e_pc
             /\ e_semaphore' = e_semaphore
             /\ e_queue_size' = e_queue_size
             /\ e_stats'.ai_decisions = e_stats.ai_decisions ]_vars

\* C9 witness: the AI decided once, and a later signal of another actor with
\* the same fingerprint was answered from the cache while nothing was in
\* flight.
C9_Witness ==
    /\ e_mode = "hybrid"
    /\ e_last.path = "cache"
    /\ e_stats.ai_decisions = 1
    /\ \A t \in Tasks : e_pc[t] = "idle"
    /\ compute_pattern_hash(e_last.signal) \in CacheKeys(cache)
    /\ LET r == CacheEntry(cache, compute_pattern_hash(e_last.signal)).result
       IN  r.source = "ai" /\ r.actor_id # e_last.signal.actor_id

\* C10: when the AI path fails (no client, the call raises, or the queue
\* overflows) decide() returns the rule decision with source "rule" and
\* nothing is inserted into the cache: the cache only ever holds results of
\* successful AI calls.
C10_FailureCachesNothing ==
    /\ e_last.path \in {"no_client", "ai_error", "overflow"}
          => e_last.ret[1].source = "rule"
    /\ \A k \in CacheKeys(cache) : CacheEntry(cache, k).result.source = "ai"

\* C11: a decision derived from an unparseable AI response (the parse-failure
\* safe default) is never inserted into the DecisionCache, so no later cache
\* hit returns a parse-failure default.
C11_ParseDefaultNeverCached ==
    /\ \A k \in CacheKeys(cache) : CacheEntry(cache, k).result.reason # ParseFailureReason
    /\ e_last.path = "cache" => e_last.ret[1].reason # ParseFailureReason

\* The text is not the expected JSON object: what stands inside the fence is
\* no JSON or no object, text follows the closing fence, or the confidence is
\* no number.
NotExpectedJson(response) ==
    \/ response.body # "object"
    \/ response.fence = "trailing"
    \/ response.confidence.kind \in {"text", "null"}

\* C12: for every AI response text that cannot be parsed as the expected JSON
\* object the parsed result is throttle with confidence 0.6 when the score is
\* >= 0.6 and allow with confidence 0.6 otherwise, with a reason that mentions
\* the parse failure.
C12_ParseFailureDefault ==
    (u_result # <<>> /\ NotExpectedJson(u_args.response)) =>
        /\ u_result[1].decision =
              IF u_args.signal.risk_score >= 600 THEN "throttle" ELSE "allow"
        /\ u_result[1].confidence = 60
        /\ u_result[1].reason = "AI response parsing failed, using fallback"

\* C12 witness: a fenced object followed by prose, for a score of exactly 0.6,
\* was answered with the throttle default.
C12_Witness ==
    /\ u_result # <<>>
    /\ u_args.response.fence = "trailing"
    /\ u_args.response.body = "object"
    /\ u_args.response.decision = "block"
    /\ u_args.signal.risk_score = 600
    /\ u_result[1].decision = "throttle"

\* Neither the cache nor the AI path is touched in this step.
NoCacheNoAI ==
    /\ cache' = cache
    /\ hits' = hits
    /\ misses' = misses
    /\ e_pc' = e_pc
    /\ e_queue_size' = e_queue_size
    /\ e_semaphore' = e_semaphore
    /\ e_client' = e_client
    /\ e_stats'.ai_decisions = e_stats.ai_decisions

\* C13: in FAST mode decide() never consults the cache or the AI: for every
\* signal, ambiguous-band ones included, the result has source "rule", the
\* cache and its hit/miss counters are unchanged, no AI call is made and the
\* AI queue counter and semaphore are untouched.
C13_FastModeRulesOnly ==
    [][ (Starts /\ e_mode = "fast") =>
          /\ Returns
          /\ e_last'.signal = StartedSignal
          /\ e_last'.ret[1].source = "rule"
          /\ NoCacheNoAI ]_vars

\* C13 witness: in FAST mode a signal was decided by rule although the cache
\* held an unexpired entry for its fingerprint.
C13_Witness ==
    /\ e_mode = "fast"
    /\ e_last.path = "fast"
    /\ InBand(e_last.signal)
    /\ Fresh(e_last.signal)
    /\ e_last.ret[1].source = "rule"

RuleTable(score) ==
    IF score < 300 THEN <<"allow", 90>>
    ELSE IF score < 500 THEN <<"allow", 70>>
    ELSE IF score <= 800 THEN <<"throttle", 70>>
    ELSE <<"block", 90>>

\* C15: with default thresholds the rule decision equals the table for every
\* score in [0,1]: s < 0.3 allow at 0.9, 0.3 <= s < 0.5 allow at 0.7,
\* 0.5 <= s <= 0.8 throttle at 0.7, s > 0.8 block at 0.9.
C15_RuleTable ==
    u_result # <<>> =>
        /\ <<u_result[1].decision, u_result[1].confidence>>
              = RuleTable(u_args.signal.risk_score)
        /\ u_result[1].source = "rule"

\* C15 witness: the rule decision for a score of exactly 0.5, asked without
\* a preset decision, is throttle at 0.7.
C15_Witness ==
    /\ u_result # <<>>
    /\ u_args.decision = <<>>
    /\ u_args.signal.risk_score = 500
    /\ u_result[1].decision = "throttle"
    /\ u_result[1].confidence = 70

\* C17: every record_event and get_all_frequencies call, made alone or while
\* other threads call the tracker, gets the lock, completes and returns: a
\* call that has started always comes back to its caller.
C17_EveryTrackerCallReturns ==
    \A w \in Workers : (f_pc[w] # "idle") ~> (f_pc[w] = "idle")

\* The timestamps recorded so far for an actor, as positions in the history.
RecordedFor(actor) == {i \in 1..Len(f_events) : f_events[i].actor = actor}

\* Worker w is in a get_frequency(actor, query) call that has not yet got
\* the lock.
AsksFrequency(w, actor, query) ==
    /\ f_pc[w] = "outer"
    /\ f_args[w] = [op |-> "get_frequency", actor |-> actor, ts |-> query]

\* The get_frequency call of worker w has returned n.
FrequencyReturned(w, n) ==
    /\ f_pc[w] = "idle"
    /\ f_args[w].op = "get_frequency"
    /\ f_ret[w] = <<n>>

\* C18: a get_frequency(A, q) made after k events of A were recorded, all
\* with timestamps within window_size_seconds before q, returns k, wherever
\* the timestamps fall relative to the bucket boundaries; and a
\* get_frequency(A, q) with q more than one window past the last record of A
\* returns 0.
C18_FrequencyRoundTrip ==
    \A w \in Workers, a \in TrackedActors, q \in Stamps :
        /\ \A k \in 1..MaxTrackerCalls :
              ( /\ AsksFrequency(w, a, q)
                /\ Cardinality(RecordedFor(a)) = k
                /\ \A i \in RecordedFor(a) :
                      /\ f_events[i].ts <= q
                      /\ f_events[i].ts >= q - window_size_seconds )
              ~> FrequencyReturned(w, k)
        /\ ( /\ AsksFrequency(w, a, q)
             /\ RecordedFor(a) # {}
             /\ \A i \in RecordedFor(a) : q > f_events[i].ts + window_size_seconds )
           ~> FrequencyReturned(w, 0)

\* The tracker holds at most window / bucket counters for each actor, and a
\* bucket map only for actors with an event inside the window that ends at
\* the latest recorded timestamp.
TrackerBounded ==
    \A a \in DOMAIN f_buckets :
        /\ Cardinality(DOMAIN f_buckets[a]) * bucket_size_seconds <= window_size_seconds
        /\ \E i \in RecordedFor(a) :
              f_events[i].ts >= f_events[Len(f_events)].ts - window_size_seconds

StageReturned(fn) ==
    /\ exercised = "stages"
    /\ u_args.fn = fn
    /\ u_result # <<>>

\* C16: the DecisionResult decide() returns carries the correlation_id and
\* the actor_id of the signal it was called with, on every path; the
\* RiskDecision of make_decision carries those of its signal, whether the AI
\* answered or the fallback decided; the RiskSignal of process_event carries
\* the actor_id of its event and embeds that event unchanged.
C16_IdsCarriedThrough ==
    /\ e_last.ret # <<>> =>
          /\ e_last.ret[1].correlation_id = e_last.signal.correlation_id
          /\ e_last.ret[1].actor_id = e_last.signal.actor_id
    /\ StageReturned("make_decision") =>
          /\ u_result[1].correlation_id = u_args.signal.correlation_id
          /\ u_result[1].actor_id = u_args.signal.actor_id
    /\ StageReturned("process_event") =>
          /\ u_result[1].actor_id = u_args.event.actor_id
          /\ u_result[1].original_event = u_args.event

\* C16 witness: the second decide() of a run, for the second actor, ended in
\* the rule fallback after the AI call failed.
C16_Witness ==
    /\ e_last.path = "ai_error"
    /\ e_last.ret # <<>>
    /\ e_last.signal.correlation_id = 2
    /\ e_last.signal.actor_id = "u2"

\* The consultations of `actor` that were allowed at a time in (from, to].
AllowedWithin(actor, from, to) ==
    {i \in 1..Len(r_hist) : /\ r_hist[i].actor = actor
                            /\ r_hist[i].allowed
                            /\ r_hist[i].at > from
                            /\ r_hist[i].at <= to}

\* An is_allowed call for `actor` is made in this step.
Consults(actor) ==
    /\ Len(r_hist') = Len(r_hist) + 1
    /\ r_hist'[Len(r_hist')].actor = actor

\* C20: the list of every actor has at most max_requests timestamps; right
\* after a consultation of an actor all timestamps of its list are newer than
\* now - window_seconds; at most max_requests consultations of one actor are
\* allowed within any window, so of n consultations made within one window at
\* least n - max_requests are refused; and a consultation of one actor leaves
\* the list of every other actor as it was.
C20_LimiterBounded ==
    /\ [](\A a \in DOMAIN r_requests : Len(r_requests[a]) <= max_requests)
    /\ [](r_hist # <<>> /\ r_hist[Len(r_hist)].at = r_now =>
            LET a == r_hist[Len(r_hist)].actor
            IN  \A i \in 1..Len(r_requests[a]) :
                    r_requests[a][i] > r_now - window_seconds)
    /\ [](\A a \in LimitedActors, t \in 0..MaxLimiterTime :
            Cardinality(AllowedWithin(a, t - window_seconds, t)) <= max_requests)
    /\ [][\A a \in LimitedActors : Consults(a) =>
            \A b \in DOMAIN r_requests \ {a} :
                b \in DOMAIN r_requests' /\ r_requests'[b] = r_requests[b]]_vars

\* C20 witness: an actor was allowed max_requests times, then refused within
\* the same window, and allowed again once the window had passed, while the
\* other actor's list holds a timestamp older than the window.
C20_Witness ==
    /\ Len(r_hist) = MaxLimiterCalls
    /\ \E i, j \in 1..Len(r_hist) :
          /\ i < j
          /\ r_hist[i].actor = "u1" /\ ~r_hist[i].allowed
          /\ r_hist[j].actor = "u1" /\ r_hist[j].allowed
          /\ Cardinality(AllowedWithin("u1", r_hist[i].at - window_seconds, r_hist[i].at))
                = max_requests
    /\ "u2" \in DOMAIN r_requests
    /\ \E k \in 1..Len(r_requests["u2"]) : r_requests["u2"][k] <= r_now - window_seconds

\* How often `t` stands in the list.
RECURSIVE Occurrences(_, _)
Occurrences(list, t) ==
    IF list = <<>> THEN 0
    ELSE (IF Head(list) = t THEN 1 ELSE 0) + Occurrences(Tail(list), t)

\* C21: is_allowed calls made by several threads on one RateLimiter behave as
\* if made one at a time: for no actor are more than max_requests
\* consultations granted within a window, and every granted timestamp that
\* is still inside the window stands in the actor's list.
C21_ConcurrentCallsSerialize ==
    /\ \A a \in LimitedActors, t \in 0..MaxLimiterTime :
          Cardinality(AllowedWithin(a, t - window_seconds, t)) <= max_requests
    /\ \A a \in LimitedActors, t \in 0..MaxLimiterTime :
          t > r_now - window_seconds =>
             Cardinality(AllowedWithin(a, t - 1, t)) <= Occurrences(RequestsOf(r_requests, a), t)

\* An execute_action call is made in this step.
Executes == a_calls' = a_calls + 1

\* C22: every execute_action call increments exactly one of allows,
\* throttles, blocks, escalations - the one of the decision value, an unknown
\* value counting as an escalation - and actions_executed, so that
\* actions_executed = allows + throttles + blocks + escalations after any
\* sequence of calls; a throttle is counted whether or not the limiter
\* grants it.
C22_CountersAddUp ==
    /\ [](a_stats.actions_executed =
             a_stats.allows + a_stats.throttles + a_stats.blocks + a_stats.escalations)
    /\ [][Executes =>
            /\ a_stats'.actions_executed = a_stats.actions_executed + 1
            /\ \A c \in {"allows", "throttles", "blocks", "escalations"} :
                  a_stats'[c] = a_stats[c] +
                     (IF c = HandlerCounter(a_last'.decision) THEN 1 ELSE 0)]_vars

\* The events that the polled messages decoded into, in the order of the polls.
RECURSIVE DecodedEvents(_)
DecodedEvents(consumed) ==
    IF consumed = <<>> THEN <<>>
    ELSE IF Head(consumed).kind = "event"
         THEN <<Head(consumed).event>> \o DecodedEvents(Tail(consumed))
         ELSE DecodedEvents(Tail(consumed))

\* The n-th output message is the signal of the n-th decoded event, keyed by
\* its actor.
OutputInOrder ==
    /\ Len(w_output) <= Len(DecodedEvents(w_consumed))
    /\ \A i \in 1..Len(w_output) :
          /\ w_output[i].key = DecodedEvents(w_consumed)[i].actor_id
          /\ w_output[i].value.actor_id = w_output[i].key

\* C23: a single stage worker publishes one message per decoded input
\* message, keyed by the actor id, in the order in which the input messages
\* were consumed: the output never runs out of that order, and the n-th
\* decoded event is followed by an n-th output message.
C23_OneOutputPerMessageInOrder ==
    /\ []OutputInOrder
    /\ \A n \in 1..MaxMessages :
          [](Len(DecodedEvents(w_consumed)) >= n => <>(Len(w_output) >= n))

\* C24: after stop() has been called, run() makes at most one further poll,
\* whether stop() came while run() was looping or before run() was entered.
C24_AtMostOnePollAfterStop == w_polls_after_stop <= 1

\* The step of the loop that polls a message which cannot be decoded.
PollsUndecodable ==
    /\ w_pc = "poll"
    /\ w_polls' = w_polls + 1
    /\ w_input # <<>>
    /\ Head(w_input).kind = "undecodable"

\* C25: a message that cannot be decoded produces no signal, adds one to
\* events_failed, leaves events_processed and the frequency tracker as they
\* were, is not polled again, and the loop goes on with its next iteration.
C25_BadMessageSkipped ==
    [][PollsUndecodable =>
          /\ w_output' = w_output
          /\ w_stats'.events_failed = w_stats.events_failed + 1
          /\ w_stats'.events_processed = w_stats.events_processed
          /\ UNCHANGED trackerVars
          /\ w_input' = Tail(w_input)
          /\ w_pc' = "loop"
          /\ w_running' = w_running]_vars

\* A bad message was counted, and the event that followed it was published.
C25_Witness ==
    /\ Len(w_consumed) = 2
    /\ w_consumed[1].kind = "undecodable"
    /\ w_consumed[2].kind = "event"
    /\ w_stats = [events_processed |-> 1, events_failed |-> 1]
    /\ Len(w_output) = 1
    /\ w_output[1].key = w_consumed[2].event.actor_id

\* decide() in FAST mode returns _rule_decision(signal)
\* (hybrid_decision_engine.py, lines 124-125).
FastDecision(signal) == rule_decision(signal, <<>>).decision

\* The topic delivers the same event twice.
DuplicateDelivery ==
    /\ Len(w_input) = 2
    /\ w_input[1].kind = "event"
    /\ w_input[2] = w_input[1]

\* C26: an event delivered twice to the Signal Processor, whose signals the
\* engine decides in FAST mode, gets two decisions with the same decision
\* value: when run() is left to work through the topic, both signals come
\* out and their decisions agree.
C26_DuplicateSameDecision ==
    (DuplicateDelivery /\ w_max_events = <<>>)
        => \/ <>w_stopped
           \/ <>(/\ Len(w_output) = 2
                 /\ FastDecision(w_output[1].value) = FastDecision(w_output[2].value))

\* The subscores of the scoring table, in thousandths.
FreqSub(frequency) ==
    IF frequency > 20 THEN 1000 ELSE IF frequency > 10 THEN 600
    ELSE IF frequency > 5 THEN 300 ELSE 0

GeoSub(event) == IF event.geo_change THEN 1000 ELSE 0

SensSub(event) ==
    CASE event.resource_sensitivity = "low" -> 100
      [] event.resource_sensitivity = "medium" -> 300
      [] event.resource_sensitivity = "high" -> 600
      [] event.resource_sensitivity = "critical" -> 1000
      [] OTHER -> 300

RoleActionSub(event) ==
    IF <<event.role, event.action>> \in
          { <<"developer", "admin_access">>, <<"analyst", "config_change">>,
            <<"support", "data_delete">>, <<"developer", "bulk_export">> }
    THEN 1000
    ELSE IF event.role \in {"admin", "superuser", "root"} THEN 300 ELSE 0

\* min(1, 0.30 freq_sub + 0.25 geo_sub + 0.25 sens_sub + 0.20 role_action_sub)
TableScore(event, frequency) ==
    Min(1000, (30 * FreqSub(frequency) + 25 * GeoSub(event) + 25 * SensSub(event)
               + 20 * RoleActionSub(event)) \div 100)

\* The score a finished call gave, and the frequency it was computed from.
ScoreGiven == IF u_args.fn = "process_event" THEN u_result[1].risk_score ELSE u_result[1]

FrequencyGiven ==
    IF u_args.fn = "calculate_risk_score"
    THEN FrequencyUsed(u_args.event, u_args.real_frequency)
    ELSE IF u_args.use_real_frequency THEN f_ret[ProcessorThread][1]
    ELSE u_args.event.frequency_last_60s

Scored == u_args.fn \in {"calculate_risk_score", "process_event"} /\ u_result # <<>>

\* C27: for every event and every tracker reading the score returned by
\* calculate_risk_score, and the one carried by the signal of process_event,
\* lies in [0, 1] and is the weighted sum of the four subscores of the
\* scoring table, capped at 1.
C27_ScoreIsTableSum ==
    Scored => /\ ScoreGiven \in 0..1000
              /\ ScoreGiven = TableScore(u_args.event, FrequencyGiven)

\* A reading of 21 replaced the event's frequency of 0, and with a
\* suspicious pair, a geo change and a critical resource the sum is 1.
C27_Witness ==
    /\ u_args.fn = "calculate_risk_score"
    /\ u_args.real_frequency = <<21>>
    /\ u_args.event.frequency_last_60s = 0
    /\ u_args.event.resource_sensitivity = "critical"
    /\ u_result = <<1000>>

C29_FactorsNamed ==
    (u_args.fn = "identify_risk_factors" /\ u_result # <<>>)
        => /\ FrequencyUsed(u_args.event, u_args.real_frequency) > 20
                => \E i \in 1..Len(u_result[1]) : u_result[1][i] = "high_frequency_activity"
           /\ u_args.event.geo_change
                => \E i \in 1..Len(u_result[1]) : u_result[1][i] = "geographic_anomaly"

ValidDecisions == {"allow", "throttle", "block", "escalate"}

\* An unknown or missing decision value becomes escalate.
Coerced(decision) == IF decision \in ValidDecisions THEN decision ELSE "escalate"

\* A confidence is moved to the nearest bound of [0, 1], in hundredths; a
\* missing one counts as 0.5.
Clamped(confidence) ==
    IF confidence.kind = "absent" THEN 50
    ELSE IF confidence.value > 100 THEN 100
    ELSE IF confidence.value < 0 THEN 0
    ELSE confidence.value

\* The confidence is a number or the text of a number.
Numeric(confidence) == confidence.kind \in {"absent", "number", "numstr"}

\* C30: every decision made from an AI response has one of the four decision
\* values and a confidence in [0, 1]; where the response is an object with a
\* numeric confidence, the decision is the response's, coerced to escalate
\* when unknown or missing, and the confidence is the response's, clamped,
\* in DecisionAgent._validate_decision (alone and inside make_decision) and
\* in HybridDecisionEngine._parse_ai_response.
C30_DecisionsNormalized ==
    (u_args # <<>> /\ u_result # <<>>) =>
       LET r == u_result[1]
       IN  /\ (u_args.fn = "validate_decision" /\ Numeric(u_args.confidence))
                => /\ r.decision = Coerced(u_args.decision)
                   /\ r.confidence = Clamped(u_args.confidence)
           /\ (u_args.fn = "parse_ai_response")
                => /\ r.decision \in ValidDecisions
                   /\ r.confidence \in 0..100
                   /\ (StripFence(u_args.response) = "object"
                          /\ Numeric(u_args.response.confidence))
                        => /\ r.decision = Coerced(u_args.response.decision)
                           /\ r.confidence = Clamped(u_args.response.confidence)
           /\ (u_args.fn = "make_decision")
                => /\ r.decision \in ValidDecisions
                   /\ r.confidence \in 0..100
                   /\ (/\ ~u_args.outcome.raises
                       /\ AgentStripFence(u_args.outcome.response) = "object"
                       /\ Numeric(u_args.outcome.response.confidence))
                        => /\ r.decision = Coerced(u_args.outcome.response.decision)
                           /\ r.confidence = Clamped(u_args.outcome.response.confidence)

\* _validate_decision("invalid", 1.5) gave ("escalate", 1.0).
C30_Witness ==
    /\ u_args # <<>>
    /\ u_args.fn = "validate_decision"
    /\ u_args.decision = "invalid"
    /\ u_args.confidence = Confidence("number", 150)
    /\ u_result = <<[decision |-> "escalate", confidence |-> 100]>>

\* The tags of a factor list, as a set.
TagSet(factors) == {factors[i] : i \in 1..Len(factors)}

\* Two signals agree on every fingerprint input.
SameFingerprintInputs(a, b) ==
    /\ a.original_event.action = b.original_event.action
    /\ a.original_event.role = b.original_event.role
    /\ RiskBucket(a.risk_score) = RiskBucket(b.risk_score)
    /\ TagSet(a.risk_factors) = TagSet(b.risk_factors)
    /\ a.original_event.geo_change = b.original_event.geo_change
    /\ a.original_event.resource_sensitivity = b.original_event.resource_sensitivity

Fingerprinted == u_args # <<>> /\ u_args.fn = "compute_pattern_hash" /\ u_result # <<>>

\* C31: two signals have the same cache fingerprint exactly when they agree
\* on action, role, the score rounded to one decimal, the set of risk
\* factors, geo_change and resource_sensitivity; actor_id, session_id,
\* correlation_id, the timestamps and frequency_last_60s have no part in it.
C31_FingerprintIgnoresActor ==
    Fingerprinted =>
        (u_result[1] = u_result[2] <=> SameFingerprintInputs(u_args.first, u_args.second))

\* Two signals with the same factors, of different actors, sessions and
\* frequencies, got the same fingerprint.
C31_Witness ==
    /\ Fingerprinted
    /\ u_args.first.actor_id # u_args.second.actor_id
    /\ u_args.first.original_event.session_id # u_args.second.original_event.session_id
    /\ u_args.first.original_event.frequency_last_60s
          # u_args.second.original_event.frequency_last_60s
    /\ u_args.first.risk_factors # <<>>
    /\ u_result[1] = u_result[2]

\* Caller p's ai_func returns its result in this step.
SucceedsNow(p) == q_pc[p] = "ai" /\ q_pc'[p] = "done" /\ q_out'[p] = "ai"

\* Caller p enters submit() in this step.
SubmitsNow(p) == q_pc[p] \in {"idle", "done"} /\ q_submitted' = q_submitted + 1

\* C32: a submit whose ai_func returns successfully sets the backoff to 0
\* and adds one to completed, whatever the backoff was; a submit that starts
\* with the backoff so left does not sleep.
C32_SuccessClearsBackoff ==
    [][\A p \in Submitters :
          /\ SucceedsNow(p) => q_backoff' = 0 /\ q_completed' = q_completed + 1
          /\ (SubmitsNow(p) /\ q_backoff = 0) => q_pc'[p] # "sleep"]_vars

\* A success after a rate limit: the backoff is 0 again, and a caller that
\* submitted after it is at the AI without having slept.
C32_Witness ==
    /\ q_rate_limited > 0
    /\ q_completed > 0
    /\ q_backoff = 0
    /\ q_rate_errs.streak = 0
    /\ \E p \in Submitters : q_pc[p] = "ai"

\* Caller p's ai_func raises, in this step, an error whose text has none of
\* 'rate', '429', 'quota'.
FailsOtherwise(p) ==
    /\ q_pc[p] = "ai"
    /\ q_pc'[p] = "done"
    /\ q_err'[p] \in ErrorTexts \ RateLimitShaped

\* The permits handed out are those of the callers at the AI and of the
\* waiters already woken.
PermitsAccounted(sem, pc) ==
    MaxConcurrent - sem.value
        = Cardinality({p \in Submitters : pc[p] = "ai"}) + Cardinality(sem.granted)

\* C33: when ai_func raises an error that is not rate-limit-shaped, submit
\* returns the fallback, leaves backoff, rate_limited, completed and
\* overflowed as they were, and gives its permit back.
C33_OtherErrorsFallBack ==
    [][\A p \in Submitters :
          FailsOtherwise(p) =>
             /\ q_out'[p] = "fallback"
             /\ UNCHANGED <<q_backoff, q_rate_limited, q_completed, q_overflowed>>
             /\ PermitsAccounted(q_semaphore', q_pc')
             /\ q_semaphore'.value + Cardinality(q_semaphore'.granted)
                   = q_semaphore.value + Cardinality(q_semaphore.granted) + 1]_vars

\* A timeout after a rate limit: the fallback came back and the backoff is
\* still the one the rate limit set.
C33_Witness ==
    /\ q_backoff = initial_backoff_ms
    /\ q_rate_limited = 1
    /\ \E p \in Submitters :
          /\ q_pc[p] = "done"
          /\ q_out[p] = "fallback"
          /\ q_err[p] = <<"t", "i", "m", "e", "o", "u", "t">>

\* The decision the engine's rule table gives for the score of a signal.
RuleTableDecision(signal) == rule_decision(signal, <<>>).decision

\* C34: the decision _fallback_decision returns is the one the engine's rule
\* table gives for the same score, its value is one of the four decisions and
\* its confidence lies in [0, 1].
C34_FallbackIsRuleDecision ==
    (exercised = "fallback" /\ u_result # <<>>) =>
        /\ u_result[1].decision = RuleTableDecision(u_args.signal)
        /\ u_result[1].decision \in ValidDecisions
        /\ u_result[1].confidence \in 0..100

\* A decide() call hands a result back in this step.
Decides == Returns /\ e_last'.ret # <<>>

\* C35: every step of the engine keeps total_decisions equal to
\* rule_decisions + cache_hits + ai_decisions and lowers no counter; a step in
\* which decide() returns a result adds one to total_decisions, and adds one
\* to cache_hits exactly when the result has source 'cache'.
C35_StatsCountEveryDecision ==
    [][/\ e_stats'.total_decisions
             = e_stats'.rule_decisions + e_stats'.cache_hits + e_stats'.ai_decisions
       /\ e_stats'.total_decisions >= e_stats.total_decisions
       /\ e_stats'.rule_decisions >= e_stats.rule_decisions
       /\ e_stats'.cache_hits >= e_stats.cache_hits
       /\ e_stats'.ai_decisions >= e_stats.ai_decisions
       /\ Decides =>
             /\ e_stats'.total_decisions = e_stats.total_decisions + 1
             /\ e_stats'.cache_hits - e_stats.cache_hits
                   = IF e_last'.ret[1].source = "cache" THEN 1 ELSE 0]_vars

\* What the YAML file gives for key k: the field when the document has it,
\* the default of the key otherwise.
YamlGiven(k) ==
    IF /\ k.env_var = u_args.key
       /\ u_args.exists
       /\ u_args.section = "mapping"
       /\ u_args.field # <<"absent">>
    THEN u_args.field[2]
    ELSE k.default

\* The value the configuration is to hold for key k: the environment's when
\* it is set and not empty, the file's otherwise.
ConfigValue(k) ==
    IF Truthy(getenv(u_args, k.env_var)) THEN getenv(u_args, k.env_var) ELSE YamlGiven(k)

\* The required keys that have a value in neither place.
MissingKeys ==
    { ConfigKeys[i].env_var : i \in { j \in DOMAIN ConfigKeys :
         ConfigKeys[j].required /\ ~Truthy(ConfigValue(ConfigKeys[j])) } }

\* C36: load_config gives every key the value of its environment variable
\* when that is set and not empty and the value of the YAML file otherwise;
\* when a required key has a value in neither it raises a ValueError whose
\* message names such a key, and it raises nothing else.
C36_EnvironmentThenFile ==
    (exercised = "config" /\ u_result # <<>>) =>
        IF MissingKeys # {}
        THEN u_result[1].raised = "ValueError" /\ u_result[1].key \in MissingKeys
        ELSE /\ u_result[1].raised = ""
             /\ \A i \in DOMAIN ConfigKeys :
                   u_result[1].values[i] = ConfigValue(ConfigKeys[i])

\* The decide() calls that wait for the AI semaphore or hold it.
PendingAI == {t \in Tasks : e_pc[t] \in {"wait", "ai"}}

\* C37: the decide() calls waiting for or holding the AI semaphore never
\* number more than max_queue_size; a call that misses the cache while
\* max_queue_size calls are pending returns the rule decision, source 'rule',
\* in the same step, and neither the semaphore nor the pending calls change.
C37_PendingAIBounded ==
    [][/\ Cardinality(PendingAI') <= e_max_queue'
       /\ (misses' = misses + 1 /\ Cardinality(PendingAI) >= e_max_queue) =>
             /\ Returns
             /\ e_last'.ret = <<rule_decision(e_last'.signal, <<>>)>>
             /\ e_last'.ret[1].source = "rule"
             /\ UNCHANGED <<e_semaphore, e_queue_size>>
             /\ PendingAI' = PendingAI]_vars

\* A call was turned away while max_queue_size calls were pending.
C37_Witness ==
    /\ e_last.path = "overflow"
    /\ e_last.ret # <<>>
    /\ Cardinality(PendingAI) = e_max_queue
    /\ e_max_queue > 0

\* No decide() call is in progress.
EngineIdle == \A t \in Tasks : e_pc[t] = "idle"

\* C38: _ai_queue_size is never negative and is the number of decide() calls
\* inside the AI path, the permits out are those of the calls at the model
\* and of the waiters already woken, and with no call in progress the counter
\* is 0, every permit is free and nobody is queued - whether the calls ended
\* in a result, an AI error, an unparsable answer or a cancellation.
C38_QueueSizeAndPermitsConserved ==
    /\ e_queue_size >= 0
    /\ e_queue_size = Cardinality(PendingAI)
    /\ e_semaphore.value >= 0
    /\ MaxConcurrentAI - e_semaphore.value
          = Cardinality({t \in Tasks : e_pc[t] = "ai"}) + Cardinality(e_semaphore.granted)
    /\ EngineIdle => /\ e_queue_size = 0
                     /\ e_semaphore = Semaphore(MaxConcurrentAI)

\* A call was cancelled after another one had ended, and the engine is idle
\* again.
C38_Witness ==
    /\ EngineIdle
    /\ e_last.path = "CancelledError"
    /\ e_calls = MaxDecides

\* What the decide() call that starts in this step does, told without the
\* mode: a score below the low threshold is allowed and one above the high
\* threshold blocked by rule, with cache and AI path untouched; a score in
\* between is looked up in the cache, a hit returns the stored result re-bound
\* to the signal, a miss enters the AI path - where the call is turned away
\* with the rule decision, gets the rule decision for want of a client, or is
\* left waiting for the semaphore or the model.
RoutedByScoreAndCache ==
    LET signal == StartedSignal
        lookup == CacheGet(cache, compute_pattern_hash(signal), now, CacheTtl)
    IN  /\ signal.risk_score < low_threshold =>
              /\ Returns
              /\ e_last'.ret = <<rule_decision(signal, <<"allow">>)>>
              /\ NoCacheNoAI
        /\ signal.risk_score > high_threshold =>
              /\ Returns
              /\ e_last'.ret = <<rule_decision(signal, <<"block">>)>>
              /\ NoCacheNoAI
        /\ (InBand(signal) /\ lookup.hit) =>
              /\ Returns
              /\ e_last'.ret = <<rebind_cached(lookup.ret[1], signal)>>
              /\ cache' = lookup.cache
              /\ hits' = hits + 1
              /\ UNCHANGED <<misses, e_pc, e_semaphore, e_queue_size>>
        /\ (InBand(signal) /\ ~lookup.hit) =>
              /\ misses' = misses + 1
              /\ hits' = hits
              /\ IF Returns
                 THEN /\ e_last'.ret \in {<<>>, <<rule_decision(signal, <<>>)>>}
                      /\ e_pc' = e_pc
                 ELSE /\ cache' = lookup.cache
                      /\ \E t \in Tasks : /\ e_pc[t] = "idle"
                                          /\ e_pc'[t] \in {"wait", "ai"}
                                          /\ e_sig'[t] = signal

\* What the end of an AI call does, told without the mode: the result
\* returned is the one put into the cache under the signal's fingerprint.
StoredAsReturned ==
    \A t \in Tasks :
       (e_pc[t] = "ai" /\ e_pc'[t] = "idle" /\ e_last'.ret # <<>>) =>
           cache' = CachePut(cache, compute_pattern_hash(e_sig[t]), e_last'.ret[1],
                             now, max_size).cache

ProcessesEvent(i) == sim_tasks'[i].processed = sim_tasks[i].processed + 1

\* C40: a loop processes an event only while no other task is inside its
\* loop with events still to take, and never after a stop request that a
\* start request followed; a task that begins while the flag is set ends at
\* once without an event.
C40_OneSimulationLoop ==
    [][\A i \in DOMAIN sim_tasks :
          /\ ProcessesEvent(i) =>
                /\ \A j \in DOMAIN sim_tasks \ {i} :
                      ~(sim_tasks[j].pc = "loop" /\ sim_tasks[j].left > 0)
                /\ ~sim_tasks[i].superseded
          /\ (sim_tasks[i].pc = "created" /\ sim_tasks'[i].pc # "created"
                 /\ simulation_running) =>
                /\ sim_tasks'[i].pc = "done"
                /\ sim_tasks'[i].processed = 0
                /\ simulation_running']_vars

====
